---- MODULE Spec2Model ----
(***************************************************************************)
(* ClaudeCodeProvider / ClaudeCodeSession of @code-cli-sdk/claude: the     *)
(* session table, the prompt loop over the backend's event stream, the     *)
(* translation of backend events into handler notifications and the       *)
(* canUseTool permission callback.                                         *)
(***************************************************************************)
EXTENDS Integers, Sequences, FiniteSets, TLC

\* ------------------------------------------------------------------ bounds
MaxObjs == 2        \* ClaudeCodeSession objects ever constructed
MaxPrompts == 2     \* prompt() calls ever made
MaxEvents == 2      \* backend events ever emitted (all sessions together)

\* ------------------------------------------------------------ value sets
SessionIds == {"s1", "s2"}
ToolIds == {"t1", "t2"}

\* CLAUDE_CAPABILITY
CLAUDE_CAPABILITY ==
  [session |-> {"session/resume", "session/set_model", "session/set_mode", "session/cancel"},
   auth    |-> {},
   utils   |-> {"utils/token_usage"},
   prompt  |-> {"prompt/system_prompt", "prompt/text", "prompt/image"},
   agent   |-> {"agent/plan"}]

\* every tag the provider declares
DeclaredCapabilities ==
  CLAUDE_CAPABILITY.session \cup CLAUDE_CAPABILITY.auth \cup CLAUDE_CAPABILITY.utils
    \cup CLAUDE_CAPABILITY.prompt \cup CLAUDE_CAPABILITY.agent

\* the capability tag of a client-facing operation (SessionCapability; the
\* Provider interface names "session/new" for newSession)
CapabilityTag(op) ==
  CASE op = "newSession"      -> "session/new"
    [] op = "resumeSession"   -> "session/resume"
    [] op = "setSessionModel" -> "session/set_model"
    [] op = "setModel"        -> "session/set_model"
    [] op = "setSessionMode"  -> "session/set_mode"
    [] op = "setMode"         -> "session/set_mode"
    [] op = "cancelSession"   -> "session/cancel"
    [] op = "cancel"          -> "session/cancel"
    [] op = "prompt"          -> "session/prompt"
    [] OTHER                  -> "session/close"

\* ESTIMATE_MODES ids
ESTIMATE_MODES == {"default", "acceptEdits", "plan", "dontAsk"}
\* the mode ids callers pass: advertised ones, the SDK's bypassPermissions and
\* an id nobody advertises
ModeArgs == {"default", "acceptEdits", "plan", "bypassPermissions", "bogus"}
\* the backend's supportedModels(), in order
supportedModels == <<"default", "opus">>
\* the model ids callers pass: advertised ones and an id nobody advertises
ModelArgs == {"default", "opus", "bogus"}
\* the ids the provider-level runs pass
FacadeModes == {"acceptEdits"}
FacadeModels == {"opus"}

\* ----------------------------------------------------------------- state
VARIABLES
  sessions,   \* ClaudeCodeProvider.sessions: session id -> session object
  objs,       \* the ClaudeCodeSession objects, in construction order
  query,      \* the backend handle (Query + input Pushable) of each object
  prompts,    \* the prompt() calls made so far, each with its position and
              \* the handler calls it has made, in call order
  request,    \* the backend's latest canUseTool call, with its position
  lastOp,     \* the last client-facing operation and what it did
  stream,     \* ndJsonStream's readable side: the inbound bytes, the decoder,
              \* the held partial record and the messages enqueued so far
  probe       \* a call of parseClaudeUsageOutput: its text and its outcome

vars == <<sessions, objs, query, prompts, request, lastOp, stream, probe>>

\* ------------------------------------------------ ndJsonStream (readable)

\* the records the inbound streams are made of end at a newline each; a last
\* one may lack it
MaxRecords == 3

\* bytes: "1" (a digit), "quote", "sp" (a space), "nl" (the newline), and the
\* two bytes C3 A9 of the UTF-8 encoding of one non-ASCII character
Pieces ==
  { <<"1">>, <<"1", "1">>, <<"quote", "C3", "A9", "quote">>, <<"sp", "1", "sp">>,
    << >>, <<"sp">>, <<"quote">> }

RECURSIVE StreamsOf(_)
StreamsOf(n) ==
  IF n = 0 THEN { << >> }
  ELSE LET shorter == StreamsOf(n - 1)
       IN shorter \cup { st \o r \o <<"nl">> : st \in shorter, r \in Pieces }

\* the inbound byte streams: complete records, then a possibly partial one
InboundStreams == { st \o r : st \in StreamsOf(MaxRecords), r \in Pieces }

\* ndJsonStream(output, input), before the first read: content = ""
NewStream(bytes) ==
  [input |-> bytes, rest |-> bytes, pending |-> "", content |-> << >>,
   out |-> << >>, logged |-> << >>, closed |-> FALSE, cuts |-> {}]

NoStream == NewStream(<< >>)

Emit(chars, r) == [r EXCEPT !.text = chars \o @]

\* textDecoder.decode(value, {stream: true}): the bytes of a chunk to text; a
\* lead byte at the end of the chunk is held for the next call, a byte that
\* cannot continue or start a character becomes U+FFFD
RECURSIVE decode(_, _)
decode(pending, bytes) ==
  IF bytes = << >> THEN [pending |-> pending, text |-> << >>]
  ELSE LET b == Head(bytes)
       IN IF pending = "C3"
          THEN IF b = "A9" THEN Emit(<<"e-acute">>, decode("", Tail(bytes)))
               ELSE Emit(<<"FFFD">>, decode("", bytes))
          ELSE IF b = "C3" THEN decode("C3", Tail(bytes))
          ELSE IF b = "A9" THEN Emit(<<"FFFD">>, decode("", Tail(bytes)))
          ELSE Emit(<<b>>, decode("", Tail(bytes)))

\* content.split("\n"): the pieces between the newlines, at least one
RECURSIVE split(_)
split(text) ==
  IF text = << >> THEN << << >> >>
  ELSE LET r == split(Tail(text))
       IN IF Head(text) = "nl" THEN << << >> >> \o r
          ELSE << <<Head(text)>> \o r[1] >> \o Tail(r)

RECURSIVE trimStart(_)
trimStart(line) ==
  IF line # << >> /\ Head(line) \in {"sp", "nl"} THEN trimStart(Tail(line)) ELSE line

RECURSIVE trimEnd(_)
trimEnd(line) ==
  IF line # << >> /\ line[Len(line)] \in {"sp", "nl"}
  THEN trimEnd(SubSeq(line, 1, Len(line) - 1)) ELSE line

\* line.trim()
trim(line) == trimEnd(trimStart(line))

\* the texts JSON.parse accepts: a number, or a string between two quotes
IsNumber(t) == t # << >> /\ \A i \in 1..Len(t) : t[i] = "1"
IsString(t) ==
  /\ Len(t) >= 2 /\ t[1] = "quote" /\ t[Len(t)] = "quote"
  /\ \A i \in 2..(Len(t) - 1) : t[i] \notin {"quote", "nl"}
Parses(t) == IsNumber(t) \/ IsString(t)

\* JSON.parse(trimmedLine), where it does not throw
JSONparse(t) ==
  IF IsNumber(t) THEN [type |-> "number", value |-> t]
  ELSE [type |-> "string", value |-> SubSeq(t, 2, Len(t) - 1)]

\* (mutant) the loop over the lines leaves at the first line that fails to
\* parse
RECURSIVE enqueueUntilError(_, _)
enqueueUntilError(lines, st) ==
  IF lines = << >> THEN st
  ELSE LET trimmedLine == trim(Head(lines))
       IN IF trimmedLine = << >> THEN enqueueUntilError(Tail(lines), st)
          ELSE IF Parses(trimmedLine)
          THEN enqueueUntilError(Tail(lines),
                 [st EXCEPT !.out = Append(@, JSONparse(trimmedLine))])
          ELSE [st EXCEPT !.logged = Append(@, trimmedLine)]

\* for (const line of lines): trim, and if anything is left, JSON.parse and
\* controller.enqueue, or console.error when JSON.parse throws
RECURSIVE enqueueLines(_, _)
enqueueLines(lines, st) ==
  IF lines = << >> THEN st
  ELSE LET trimmedLine == trim(Head(lines))
       IN IF trimmedLine = << >> THEN enqueueLines(Tail(lines), st)
          ELSE IF Parses(trimmedLine)
          THEN enqueueLines(Tail(lines),
                 [st EXCEPT !.out = Append(@, JSONparse(trimmedLine))])
          ELSE enqueueLines(Tail(lines),
                 [st EXCEPT !.logged = Append(@, trimmedLine)])

\* (mutant) the piece after the last newline is not kept for the next read
heldDropped(lines) == << >>

\* content = lines.pop() || ""
held(lines) == lines[Len(lines)]

\* one pass of the read loop with the chunk `value`
readChunk(st, value) ==
  LET d == decode(st.pending, value)
      lines == split(st.content \o d.text)
  IN enqueueLines(SubSeq(lines, 1, Len(lines) - 1),
       [st EXCEPT !.pending = d.pending, !.content = held(lines)])

\* where the end of a chunk falls: inside a record, inside a character
CutsOf(st, n) ==
  IF n = Len(st.rest) THEN {}
  ELSE (IF st.rest[n] # "nl" THEN {"record"} ELSE {})
       \cup (IF st.rest[n] = "C3" /\ st.rest[n + 1] = "A9" THEN {"character"} ELSE {})

\* reader.read() returns the next n bytes of the inbound stream
StreamRead ==
  /\ ~stream.closed
  /\ \E n \in 1..Len(stream.rest) :
       stream' = [readChunk(stream, SubSeq(stream.rest, 1, n)) EXCEPT
                    !.rest = SubSeq(stream.rest, n + 1, Len(stream.rest)),
                    !.cuts = @ \cup CutsOf(stream, n)]
  /\ UNCHANGED <<sessions, objs, query, prompts, request, lastOp, probe>>

\* reader.read() returns done: the loop is left and the controller closed
StreamEnd ==
  /\ ~stream.closed
  /\ stream.rest = << >>
  /\ stream' = [stream EXCEPT !.closed = TRUE]
  /\ UNCHANGED <<sessions, objs, query, prompts, request, lastOp, probe>>

\* ------------------------------------------------------------ usage probe

\* a text is a sequence of lines and a line a sequence of pieces of text:
\* "ESC[2J" is a terminal escape sequence, "middot" the separator of the
\* header line, "bar" a piece of the progress bar, " " a space
MaxDigits == 3
MaxLines == 3

Digits == {"0", "1", "2", "3", "4", "5", "6", "7", "8", "9"}
DigitValue(d) ==
  CASE d = "0" -> 0 [] d = "1" -> 1 [] d = "2" -> 2 [] d = "3" -> 3 [] d = "4" -> 4
    [] d = "5" -> 5 [] d = "6" -> 6 [] d = "7" -> 7 [] d = "8" -> 8 [] d = "9" -> 9

RECURSIVE DigitStrings(_)
DigitStrings(n) ==
  IF n = 0 THEN { << >> }
  ELSE LET shorter == DigitStrings(n - 1)
       IN shorter \cup { Append(ds, d) : ds \in shorter, d \in Digits }

\* the texts with one usage line under the session label
PercentTexts ==
  { << <<"Current session">>, <<"bar">> \o ds \o sep \o <<"%", " ", w>> >> :
      ds \in DigitStrings(MaxDigits) \ { << >> }, sep \in { << >>, <<" ">> },
      w \in {"used", "left", "Left"} }

UsageLines ==
  { <<"ESC[2J", "Sonnet 4.5", " ", "middot", " ", "API Usage Billing">>,
    <<"Opus 4.5", " ", "middot", " ", "Claude Pro">>,
    <<"Opus 4.5", " ", "middot", "Claude Max">>,
    <<"Current session">>,
    <<"bar", "2", "7", "%", " ", "used">>,
    <<"Current week (all models)">>,
    <<"Total cost">>,
    <<"token_expired">> }

RECURSIVE TextsOf(_)
TextsOf(n) ==
  IF n = 0 THEN { << >> }
  ELSE LET shorter == TextsOf(n - 1)
       IN shorter \cup { Append(t, l) : t \in shorter, l \in UsageLines }

\* the CLI outputs parseClaudeUsageOutput is called with
UsageTexts == PercentTexts \cup TextsOf(MaxLines)

Null == -1
NoSnapshot == [accountTier |-> "", quotas |-> << >>]
NewProbe(text) == [pc |-> "called", text |-> text, code |-> "", snapshot |-> NoSnapshot]
NoProbe == [pc |-> "none", text |-> << >>, code |-> "", snapshot |-> NoSnapshot]

\* normalizeTerminalText: the escape sequences are removed
normalizeTerminalText(text) ==
  LET Kept(t) == t # "ESC[2J"
  IN [l \in 1..Len(text) |-> SelectSeq(text[l], Kept)]

\* String.toLowerCase, piece by piece
Lower(t) ==
  CASE t = "API Usage Billing" -> "api usage billing"
    [] t = "Claude Pro" -> "claude pro"
    [] t = "Claude Max" -> "claude max"
    [] t = "Current session" -> "current session"
    [] t = "Current week (all models)" -> "current week (all models)"
    [] t = "Sonnet 4.5" -> "sonnet 4.5"
    [] t = "Opus 4.5" -> "opus 4.5"
    [] t = "Total cost" -> "total cost"
    [] t = "Left" -> "left"
    [] OTHER -> t
toLowerCase(line) == [i \in 1..Len(line) |-> Lower(line[i])]
LowerText(text) == [l \in 1..Len(text) |-> toLowerCase(text[l])]

\* String.includes, of a line and of a text
LineIncludes(line, needle) ==
  \E i \in 1..(Len(line) - Len(needle) + 1) :
    SubSeq(line, i, i + Len(needle) - 1) = needle
includes(text, needle) == \E l \in 1..Len(text) : LineIncludes(text[l], needle)

\* extractUsageError: the error the text reports, "" when none
extractUsageError(text) ==
  LET lower == LowerText(text)
      has(marker) == includes(lower, <<marker>>)
  IN IF has("do you trust the files in this folder?") /\ ~has("current session")
     THEN "folder_trust_required"
     ELSE IF \/ has("token_expired") \/ has("token has expired")
             \/ has("authentication_error") \/ has("not logged in")
             \/ has("please log in")
     THEN "authentication_required"
     ELSE IF has("update required") \/ has("please update")
     THEN "update_required"
     ELSE IF /\ (has("rate limited") \/ has("rate limit exceeded")
                   \/ has("too many requests"))
             /\ ~has("rate limits are")
     THEN "execution_failed"
     ELSE ""

\* detectAccountTier
detectAccountTier(text) ==
  LET lower == LowerText(text)
  IN IF \/ includes(lower, <<"middot", " ", "claude pro">>)
        \/ includes(lower, <<"middot", "claude pro">>)
     THEN "claude_pro"
     ELSE IF \/ includes(lower, <<"middot", " ", "claude max">>)
             \/ includes(lower, <<"middot", "claude max">>)
     THEN "claude_max"
     ELSE IF includes(lower, <<"api usage billing">>) THEN "claude_api"
     ELSE IF /\ includes(lower, <<"current session">>)
             /\ \/ includes(lower, <<"%", " ", "left">>)
                \/ includes(lower, <<"%", " ", "used">>)
     THEN "claude_max"
     ELSE "unknown"

RECURSIVE skipSpaces(_, _)
skipSpaces(line, i) ==
  IF i <= Len(line) /\ line[i] = " " THEN skipSpaces(line, i + 1) ELSE i

\* /([0-9]{1,3})\s*%\s*(used|left)/i matches at piece i with k digits
MatchAt(line, i, k) ==
  /\ i + k - 1 <= Len(line)
  /\ \A j \in i..(i + k - 1) : line[j] \in Digits
  /\ LET p == skipSpaces(line, i + k)
     IN /\ p <= Len(line) /\ line[p] = "%"
        /\ LET w == skipSpaces(line, p + 1)
           IN w <= Len(line) /\ Lower(line[w]) \in {"used", "left"}

\* the match that starts at piece i with k digits: the digits and the word
MatchOf(line, i, k) ==
  [found |-> TRUE, digits |-> SubSeq(line, i, i + k - 1),
   word |-> line[skipSpaces(line, skipSpaces(line, i + k) + 1)]]

\* of the matches that start at piece i, the one with the most digits
LongestAt(line, i) ==
  MatchOf(line, i, CHOOSE k \in 1..3 :
                     MatchAt(line, i, k) /\ \A y \in 1..3 : MatchAt(line, i, y) => y <= k)

LeftmostOf(line, at) ==
  IF at = {} THEN [found |-> FALSE, digits |-> << >>, word |-> ""]
  ELSE LongestAt(line, CHOOSE x \in at : \A y \in at : x <= y)

\* line.match(...): the leftmost match, with as many digits as match
Match(line) ==
  LeftmostOf(line, { i \in 1..Len(line) : \E k \in 1..3 : MatchAt(line, i, k) })

\* Number.parseInt(digits, 10)
RECURSIVE parseInt(_)
parseInt(ds) ==
  IF ds = << >> THEN 0
  ELSE 10 * parseInt(SubSeq(ds, 1, Len(ds) - 1)) + DigitValue(ds[Len(ds)])

Min(a, b) == IF a <= b THEN a ELSE b
Max(a, b) == IF a >= b THEN a ELSE b

\* the percentage as written, neither floored nor capped
unclampedOf(m) ==
  IF ~m.found THEN Null
  ELSE IF Lower(m.word) = "used" THEN 100 - parseInt(m.digits) ELSE parseInt(m.digits)

\* (mutant) percentFromLine without Math.max and Math.min
percentFromLineUnclamped(line) == unclampedOf(Match(line))

\* the remaining percentage of a match: null when there is none
remainingOf(m) ==
  IF ~m.found THEN Null
  ELSE LET rawVal == parseInt(m.digits)
           isUsed == Lower(m.word) = "used"
           remaining == IF isUsed THEN Max(0, 100 - rawVal) ELSE rawVal
       IN Min(100, Max(0, remaining))

\* percentFromLine
percentFromLine(line) == remainingOf(Match(line))

\* value ?? other, for a percentage
OrElse(pct, other) == IF pct # Null THEN pct ELSE other

\* the first percentage in lines from..to, Null when none
RECURSIVE firstPercent(_, _, _)
firstPercent(lines, from, to) ==
  IF from > to \/ from > Len(lines) THEN Null
  ELSE OrElse(percentFromLine(lines[from]), firstPercent(lines, from + 1, to))

\* extractPercent({labelSubstring, text}): from the label line on, the first
\* of twelve lines that holds a percentage
RECURSIVE extractPercentFrom(_, _, _)
extractPercentFrom(lines, label, i) ==
  IF i > Len(lines) THEN Null
  ELSE IF ~LineIncludes(toLowerCase(lines[i]), <<label>>)
  THEN extractPercentFrom(lines, label, i + 1)
  ELSE OrElse(firstPercent(lines, i, i + 11), extractPercentFrom(lines, label, i + 1))

extractPercent(label, text) == extractPercentFrom(text, label, 1)

\* the quota entries of the snapshot: the session's, then those found
Quota(type, pct) == [quotaType |-> type, percentRemaining |-> pct]
QuotaIf(type, pct) == IF pct # Null THEN <<Quota(type, pct)>> ELSE << >>
QuotasOf(sessionPct, clean) ==
  <<Quota("session", sessionPct)>>
  \o QuotaIf("weekly", extractPercent("current week (all models)", clean))
  \o QuotaIf("opus", extractPercent("current week (opus)", clean))
  \o QuotaIf("sonnet", OrElse(extractPercent("current week (sonnet only)", clean),
                              extractPercent("current week (sonnet)", clean)))

ProbeThrows(st, code) == [st EXCEPT !.pc = "thrown", !.code = code]

\* parseClaudeUsageOutput, after the usage error and the account tier
parseQuotas(st, clean, accountTier, sessionPct) ==
  IF sessionPct = Null THEN ProbeThrows(st, "parse_failed")
  ELSE [st EXCEPT !.pc = "returned",
                  !.snapshot = [accountTier |-> accountTier,
                                quotas |-> QuotasOf(sessionPct, clean)]]

\* parseClaudeUsageOutput, after normalizeTerminalText
parseClean(st, clean, usageError, accountTier) ==
  IF usageError # "" THEN ProbeThrows(st, usageError)
  ELSE IF accountTier = "claude_api" THEN ProbeThrows(st, "subscription_required")
  ELSE parseQuotas(st, clean, accountTier, extractPercent("current session", clean))

normalized(st) == normalizeTerminalText(st.text)

\* parseClaudeUsageOutput(text)
parseClaudeUsageOutput(st) ==
  parseClean(st, normalized(st), extractUsageError(normalized(st)),
             detectAccountTier(normalized(st)))

\* a call of parseClaudeUsageOutput runs to its end
ParseUsage ==
  /\ probe.pc = "called"
  /\ probe' = parseClaudeUsageOutput(probe)
  /\ UNCHANGED <<sessions, objs, query, prompts, request, lastOp, stream>>

UsedIds == {objs[o].id : o \in 1..Len(objs)}

\* new ClaudeCodeSession(...): cancelled = false, permissionMode = "default",
\* toolUseCache = {}. Two fields are history the object itself does not keep:
\* closed (close() was called on it and returned) and alwaysAllowed (the tools
\* the client has answered always-allow for)
NewSessionObject(sid) ==
  [id |-> sid, cancelled |-> FALSE, permissionMode |-> "default",
   toolUseCache |-> [t \in ToolIds |-> "none"], closed |-> FALSE, alwaysAllowed |-> {}]

\* new Pushable(): nothing queued, no consumer waiting; `taken` is the history
\* of what its consumer has been handed
NewPushable == [queue |-> << >>, waiting |-> FALSE, taken |-> << >>]

\* (mutant) a value pushed while the consumer waits is queued behind nothing
\* and the waiting consumer is forgotten
PushableDropsWaiter(input, v) ==
  IF input.waiting THEN [input EXCEPT !.waiting = FALSE]
  ELSE [input EXCEPT !.queue = Append(@, v)]

\* Pushable.push(v): hands v to the waiting consumer, or queues it
PushablePush(input, v) ==
  IF input.waiting THEN [input EXCEPT !.waiting = FALSE, !.taken = Append(@, v)]
  ELSE [input EXCEPT !.queue = Append(@, v)]

\* the consumer's iterator.next(): takes the oldest queued value, or waits
PushableNext(input) ==
  IF input.queue # << >>
  THEN [input EXCEPT !.queue = Tail(@), !.taken = Append(@, Head(input.queue))]
  ELSE [input EXCEPT !.waiting = TRUE]

\* query({prompt: input, options}): a fresh backend handle; buildOptions sets
\* permissionMode "default"
NewQuery ==
  [model |-> "default", mode |-> "default", emitted |-> 0, done |-> FALSE,
   input |-> NewPushable]

\* a PermissionResult handed back to the backend ("throw": the callback's
\* promise rejects instead)
Decision(behavior, interrupt, updatedPermissions) ==
  [behavior |-> behavior, interrupt |-> interrupt, updatedPermissions |-> updatedPermissions]
NoDecision == Decision("", FALSE, "none")

\* what the client's handler may answer: cancelled, or an option id
Response(outcome, optionId) == [outcome |-> outcome, optionId |-> optionId]

\* one canUseTool call: its arguments, the session object it found, where it
\* stands, the answer it got and what it has done
Request(sid, o, toolName, suggestions, pc, flow, decision) ==
  [sid |-> sid, obj |-> o, toolName |-> toolName, suggestions |-> suggestions, pc |-> pc,
   flow |-> flow, response |-> Response("", ""), aborted |-> FALSE, failed |-> FALSE,
   modeUpdates |-> << >>, decision |-> decision]
NoRequest == Request("", 0, "", FALSE, "idle", "none", NoDecision)

\* object o is the one the session table holds under its id
Registered(o) == objs[o].id \in DOMAIN sessions /\ sessions[objs[o].id] = o

\* a client-facing call: the operation, whether the session it names was in the
\* table when it was made, how it ended and the backend calls it made, in
\* order; closed: the session it names had been closed before; arg: the model
\* id, mode id or content blocks it was given
Op(op, known, outcome, calls) ==
  [op |-> op, known |-> known, outcome |-> outcome, calls |-> calls, closed |-> FALSE,
   arg |-> ""]

\* the record of a call on session object o with argument arg
On(o, arg, rec) == [rec EXCEPT !.closed = objs[o].closed, !.arg = arg]

\* some session object that had id sid was closed
WasClosed(sid) == \E o \in 1..Len(objs) : objs[o].id = sid /\ objs[o].closed

Init ==
  /\ sessions = << >>
  /\ objs = << >>
  /\ query = << >>
  /\ prompts = << >>
  /\ request = NoRequest
  /\ lastOp = Op("none", FALSE, "none", << >>)
  /\ stream = NoStream
  /\ probe = NoProbe

\* ------------------------------------------------- provider: session table
\* this.sessions[sessionId] = session
Put(tbl, sid, o) == [s \in (DOMAIN tbl) \cup {sid} |-> IF s = sid THEN o ELSE tbl[s]]
\* delete this.sessions[sessionId]
Delete(tbl, sid) == [s \in (DOMAIN tbl) \ {sid} |-> tbl[s]]

\* createSession(cwd, resume): builds the backend handle and the session
\* object and stores it under its id, replacing whatever was there
createSession(op, sid) ==
  /\ objs' = Append(objs, NewSessionObject(sid))
  /\ query' = Append(query, NewQuery)
  /\ sessions' = Put(sessions, sid, Len(objs) + 1)
  /\ UNCHANGED <<stream, probe>>
  /\ lastOp' = Op(op, sid \in DOMAIN sessions, "ok", <<"query">>)
  /\ UNCHANGED <<prompts, request>>

\* newSession(request): the id is a fresh randomUUID()
newSession ==
  \E sid \in SessionIds \ UsedIds : Len(objs) < MaxObjs /\ createSession("newSession", sid)

\* resumeSession(sessionId, request): the id is the caller's
resumeSession ==
  \E sid \in SessionIds : Len(objs) < MaxObjs /\ createSession("resumeSession", sid)

\* (mutant) an unknown session id is passed over in silence
NotFoundSilent(op, sid) ==
  /\ UNCHANGED <<stream, probe>>
  /\ lastOp' = [Op(op, FALSE, "ok", << >>) EXCEPT !.closed = WasClosed(sid)]
  /\ UNCHANGED <<sessions, objs, query, prompts, request>>

\* throw new Error(`SessionId(${sessionId}) is not exist`)
NotFound(op, sid) ==
  /\ UNCHANGED <<stream, probe>>
  /\ lastOp' = [Op(op, FALSE, "not_found", << >>) EXCEPT !.closed = WasClosed(sid)]
  /\ UNCHANGED <<sessions, objs, query, prompts, request>>

\* --------------------------------------------------- session: control calls
\* ClaudeCodeSession.setModel: await this.query.setModel(modelId); `ok` is
\* whether the backend call resolves
setModel(op, o, modelId, ok) ==
  /\ query' = [query EXCEPT ![o].model = IF ok THEN modelId ELSE @]
  /\ UNCHANGED <<stream, probe>>
  /\ lastOp' = On(o, modelId,
                   Op(op, Registered(o), IF ok THEN "ok" ELSE "backend_error", <<"setModel">>))
  /\ UNCHANGED <<sessions, objs, prompts, request>>

\* ClaudeCodeSession.setMode: this.permissionMode = modeId, then
\* await this.query.setPermissionMode(modeId)
setMode(op, o, modeId, ok) ==
  /\ objs' = [objs EXCEPT ![o].permissionMode = modeId]
  /\ query' = [query EXCEPT ![o].mode = IF ok THEN modeId ELSE @]
  /\ UNCHANGED <<stream, probe>>
  /\ lastOp' = On(o, modeId,
                   Op(op, Registered(o), IF ok THEN "ok" ELSE "backend_error",
                      <<"setPermissionMode">>))
  /\ UNCHANGED <<sessions, prompts, request>>

Running(p) == prompts[p].pc \in {"next", "emit"}

\* the prompts of object o that were started and have consumed no backend
\* event yet learn that cancel() came first
MarkCancel(o) ==
  [p \in 1..Len(prompts) |->
     IF prompts[p].obj = o /\ Running(p) /\ prompts[p].consumed = 0
     THEN [prompts[p] EXCEPT !.cancelEarly = TRUE] ELSE prompts[p]]

\* ClaudeCodeSession.cancel: this.cancelled = true, then await this.query.interrupt()
\* (mutant) the cancelled flag is one flag for all sessions
cancelEffectShared(o, closing) ==
  /\ objs' = [a \in 1..Len(objs) |->
               [objs[a] EXCEPT !.cancelled = TRUE, !.closed = @ \/ (closing /\ a = o)]]
  /\ prompts' = MarkCancel(o)

\* `closing`: the call is close() and it returns
cancelEffect(o, closing) ==
  /\ objs' = [objs EXCEPT ![o].cancelled = TRUE, ![o].closed = @ \/ closing]
  /\ prompts' = MarkCancel(o)

cancel(op, o, ok) ==
  /\ cancelEffect(o, op = "close" /\ ok)
  /\ UNCHANGED <<stream, probe>>
  /\ lastOp' = On(o, "", Op(op, Registered(o), IF ok THEN "ok" ELSE "backend_error",
                            <<"interrupt">>))
  /\ UNCHANGED <<sessions, query, request>>

\* (mutant) close() interrupts the backend whatever the cancelled flag says
closeUnguarded(op, o, ok) == cancel(op, o, ok)

\* ClaudeCodeSession.close: if (this.cancelled) return; await this.cancel()
close(op, o, ok) ==
  IF objs[o].cancelled
  THEN /\ UNCHANGED <<stream, probe>>
       /\ lastOp' = On(o, "", Op(op, Registered(o), "ok", << >>))
       /\ objs' = [objs EXCEPT ![o].closed = TRUE]
       /\ UNCHANGED <<sessions, query, prompts, request>>
  ELSE cancel(op, o, ok)

\* (mutant) getAvailableModels only reads the list
getAvailableModelsReadOnly(o, ok) ==
  /\ UNCHANGED <<stream, probe>>
  /\ lastOp' = On(o, "", Op("getAvailableModels", Registered(o),
                            IF ok THEN "ok" ELSE "backend_error", <<"supportedModels">>))
  /\ UNCHANGED <<sessions, objs, query, prompts, request>>

\* ClaudeCodeSession.getAvailableModels: supportedModels(), then
\* setModel(models[0].value)
getAvailableModels(o, ok) ==
  /\ query' = [query EXCEPT ![o].model = IF ok THEN supportedModels[1] ELSE @]
  /\ UNCHANGED <<stream, probe>>
  /\ lastOp' = On(o, "", Op("getAvailableModels", Registered(o),
                            IF ok THEN "ok" ELSE "backend_error",
                            <<"supportedModels", "setModel">>))
  /\ UNCHANGED <<sessions, objs, prompts, request>>

\* the same calls made on a Session object the caller kept
SessionSetModel == \E o \in 1..Len(objs), m \in ModelArgs, ok \in BOOLEAN : setModel("setModel", o, m, ok)
SessionSetMode == \E o \in 1..Len(objs), m \in ModeArgs, ok \in BOOLEAN : setMode("setMode", o, m, ok)
SessionCancel == \E o \in 1..Len(objs), ok \in BOOLEAN : cancel("cancel", o, ok)
SessionClose == \E o \in 1..Len(objs), ok \in BOOLEAN : close("close", o, ok)
SessionGetAvailableModels == \E o \in 1..Len(objs), ok \in BOOLEAN : getAvailableModels(o, ok)

\* --------------------------------------------------- provider: by session id
setSessionModel ==
  \E sid \in SessionIds, m \in FacadeModels, ok \in {TRUE} :
    IF sid \in DOMAIN sessions THEN setModel("setSessionModel", sessions[sid], m, ok)
    ELSE NotFound("setSessionModel", sid)

setSessionMode ==
  \E sid \in SessionIds, m \in FacadeModes, ok \in {TRUE} :
    IF sid \in DOMAIN sessions THEN setMode("setSessionMode", sessions[sid], m, ok)
    ELSE NotFound("setSessionMode", sid)

cancelSession ==
  \E sid \in SessionIds, ok \in BOOLEAN :
    IF sid \in DOMAIN sessions THEN cancel("cancelSession", sessions[sid], ok)
    ELSE NotFound("cancelSession", sid)

\* closeSession: await session.close(); delete this.sessions[sessionId]
\* (the delete is not reached when close() throws)
closeSession ==
  \E sid \in SessionIds, ok \in BOOLEAN :
    IF sid \in DOMAIN sessions
    THEN LET o == sessions[sid] IN
         IF objs[o].cancelled
         THEN /\ sessions' = Delete(sessions, sid)
              /\ objs' = [objs EXCEPT ![o].closed = TRUE]
              /\ UNCHANGED <<stream, probe>>
              /\ lastOp' = On(o, "", Op("closeSession", TRUE, "ok", << >>))
              /\ UNCHANGED <<query, prompts, request>>
         ELSE /\ cancelEffect(o, ok)
              /\ sessions' = IF ok THEN Delete(sessions, sid) ELSE sessions
              /\ UNCHANGED <<stream, probe>>
              /\ lastOp' = On(o, "", Op("closeSession", TRUE,
                                        IF ok THEN "ok" ELSE "backend_error", <<"interrupt">>))
              /\ UNCHANGED <<query, request>>
    ELSE NotFound("closeSession", sid)

\* ------------------------------------------------------- backend messages
\* a content chunk of a backend message (ContentBlockParam / BetaContentBlock /
\* BetaRawContentBlockDelta), with the fields the translation reads
Chunk(type, id, name, is_error, text, todos) ==
  [type |-> type, id |-> id, name |-> name, is_error |-> is_error, text |-> text,
   todos |-> todos, list |-> << >>]
TextChunk(type, text) == Chunk(type, "", "", FALSE, text, FALSE)
ToolUse(type, id, name, todos) == Chunk(type, id, name, FALSE, "", todos)
\* a ClaudePlanEntry, and a TodoWrite tool use whose input.todos is the list
Todo(content, status) == [content |-> content, status |-> status, activeForm |-> "doing"]
TodoWrite(type, id, list) == [ToolUse(type, id, "TodoWrite", TRUE) EXCEPT !.list = list]
ToolResult(type, id, is_error) == Chunk(type, id, "", is_error, "", FALSE)

\* an SDKMessage, with the fields promptInternal reads
Message(type, subtype, is_error, text, model, isString, content) ==
  [type |-> type, subtype |-> subtype, is_error |-> is_error, text |-> text,
   model |-> model, isString |-> isString, content |-> content]
SystemMessage(subtype) == Message("system", subtype, FALSE, "", "", FALSE, << >>)
ResultMessage(subtype, is_error, text) == Message("result", subtype, is_error, text, "", FALSE, << >>)
StreamEvent(etype, chunk) == Message("stream_event", etype, FALSE, "", "", FALSE, <<chunk>>)
AssistantMessage(model, content) == Message("assistant", "", FALSE, "", model, FALSE, content)
UserMessage(content) == Message("user", "", FALSE, "", "", FALSE, content)
UserString(text) == Message("user", "", FALSE, text, "", TRUE, << >>)
OtherMessage(type) == Message(type, "", FALSE, "", "", FALSE, << >>)
\* no message yet, and query.next() resolving with done: true
NoMessage == OtherMessage("none")
StreamDone == OtherMessage("done")

\* ------------------------------------------------------- event translation
\* a SessionNotification["update"]: its sessionUpdate tag, tool call id and status
Update(kind, id, status) ==
  [kind |-> kind, toolCallId |-> id, status |-> status, entries |-> << >>]

\* (mutant) the entries of the plan in the opposite order
planEntriesReversed(list) ==
  [i \in 1..Len(list) |->
     [content |-> list[Len(list) + 1 - i].content, status |-> list[Len(list) + 1 - i].status,
      priority |-> "medium"]]

\* planEntries: input.todos.map(...)
planEntries(list) ==
  [i \in 1..Len(list) |->
     [content |-> list[i].content, status |-> list[i].status, priority |-> "medium"]]

ToolUseTypes == {"tool_use", "server_tool_use", "mcp_tool_use"}
ToolResultTypes ==
  {"tool_result", "tool_search_tool_result", "web_fetch_tool_result", "web_search_tool_result",
   "code_execution_tool_result", "bash_code_execution_tool_result",
   "text_editor_code_execution_tool_result", "mcp_tool_result"}

\* (mutant) the error flag of the result is not looked at
ResultStatusIgnoringError(chunk) == "completed"

\* the status of a tool_call_update: "is_error" in chunk && chunk.is_error
ResultStatus(chunk) == IF chunk.is_error THEN "failed" ELSE "completed"

\* The callback toAcpNotifications registers per tool use (registerHookCallback)
\* is only ever run by a PostToolUse hook; buildOptions installs no hooks, so it
\* never runs and the handler is called from the prompt loop alone.
\* toolInfoFromToolUse / toolUpdateFromToolResult add title, kind, content and
\* locations to an update; its id, kind of update and status are set here.
\* toAcpNotifications, one chunk: the update it yields (<< >> when none) under
\* the cache as it is when the chunk is reached
ChunkUpdate(chunk, role, cache) ==
  CASE chunk.type \in {"text", "text_delta", "image"} ->
         <<Update(IF role = "assistant" THEN "agent_message_chunk" ELSE "user_message_chunk", "", "")>>
    [] chunk.type \in {"thinking", "thinking_delta"} ->
         <<Update("agent_thought_chunk", "", "")>>
    [] chunk.type \in ToolUseTypes ->
         IF chunk.name = "TodoWrite"
         THEN IF chunk.todos
              THEN <<[Update("plan", "", "") EXCEPT !.entries = planEntries(chunk.list)]>>
              ELSE << >>
         ELSE <<Update("tool_call", chunk.id, "pending")>>
    [] chunk.type \in ToolResultTypes ->
         IF cache[chunk.id] = "none" THEN << >>
         ELSE IF cache[chunk.id] # "TodoWrite"
              THEN <<Update("tool_call_update", chunk.id, ResultStatus(chunk))>>
              ELSE << >>
    [] OTHER -> << >>

\* (mutant) the entry of a tool use is dropped when its result is seen
CacheAfterEvicting(chunk, cache) ==
  IF chunk.type \in ToolUseTypes THEN [cache EXCEPT ![chunk.id] = chunk.name]
  ELSE IF chunk.type \in ToolResultTypes THEN [cache EXCEPT ![chunk.id] = "none"]
  ELSE cache

\* toolUseCache[chunk.id] = chunk, for the tool-use chunk types
CacheAfter(chunk, cache) ==
  IF chunk.type \in ToolUseTypes THEN [cache EXCEPT ![chunk.id] = chunk.name] ELSE cache

\* toAcpNotifications over an array of chunks: the updates in chunk order and
\* the cache it leaves
RECURSIVE toAcpNotifications(_, _, _)
toAcpNotifications(content, role, cache) ==
  IF content = << >> THEN [out |-> << >>, cache |-> cache]
  ELSE LET c1 == CacheAfter(Head(content), cache)
           rest == toAcpNotifications(Tail(content), role, c1)
       IN [out |-> ChunkUpdate(Head(content), role, c1) \o rest.out, cache |-> rest.cache]

\* streamEventToAcpNotifications: only content_block_start / content_block_delta
\* carry a chunk
streamEventToAcpNotifications(m, cache) ==
  IF m.subtype \in {"content_block_start", "content_block_delta"}
  THEN toAcpNotifications(m.content, "assistant", cache)
  ELSE [out |-> << >>, cache |-> cache]

\* emitUpdate: the handler method an update is handed to
emitUpdate(kind) ==
  CASE kind \in {"user_message_chunk", "agent_message_chunk", "agent_thought_chunk",
                 "tool_call", "tool_call_update"} -> "sessionUpdate"
    [] kind = "plan" -> "planUpdate"
    [] kind = "available_commands_update" -> "availableCommandsUpdate"
    [] kind = "current_mode_update" -> "modeUpdate"
    [] kind = "title_generated" -> "titleGenerated"
    [] OTHER -> "none"

\* ------------------------------------------------------------- prompt loop
\* what one pass of promptInternal's loop does with message m: the updates to
\* emit, the cache it leaves and how the pass ends
Step(end, stopReason, error, usage, out, cache) ==
  [end |-> end, stopReason |-> stopReason, error |-> error, usage |-> usage,
   out |-> out, cache |-> cache]
Continue(cache) == Step("continue", "", "", FALSE, << >>, cache)
Return(stopReason, usage, cache) == Step("return", stopReason, "", usage, << >>, cache)
\* (mutant) aborting the prompt also forgets the tool uses seen so far
ThrowForgetting(error, cache) ==
  [end |-> "throw", stopReason |-> "", error |-> error, usage |-> FALSE, out |-> << >>,
   cache |-> [t \in ToolIds |-> "none"]]
Throw(error, cache) == Step("throw", "", error, FALSE, << >>, cache)

BudgetSubtypes == {"error_max_budget_usd", "error_max_turns", "error_max_structured_output_retries"}

\* (mutant) a result is handled without a look at the cancelled flag
OnResultUncancelled(m, isCancelled, cache) ==
  CASE m.subtype = "success" ->
         IF m.text = "login" THEN Throw("authRequired", cache)
         ELSE IF m.is_error THEN Throw("internalError", cache)
         ELSE Return("end_turn", TRUE, cache)
    [] m.subtype = "error_during_execution" ->
         IF m.is_error THEN Throw("internalError", cache) ELSE Return("end_turn", FALSE, cache)
    [] m.subtype \in BudgetSubtypes ->
         IF m.is_error THEN Throw("internalError", cache)
         ELSE Return("max_turn_requests", FALSE, cache)
    [] OTHER -> Continue(cache)

\* (mutant) the result's own outcome is looked at before the cancelled flag,
\* and a budget subtype is handed on as the stop reason
OnResultRaw(m, isCancelled, cache) ==
  CASE m.subtype = "success" ->
         IF m.text = "login" THEN Throw("authRequired", cache)
         ELSE IF m.is_error THEN Throw("internalError", cache)
         ELSE Return("end_turn", TRUE, cache)
    [] m.subtype = "error_during_execution" ->
         IF m.is_error THEN Throw("internalError", cache) ELSE Return("end_turn", FALSE, cache)
    [] m.subtype \in BudgetSubtypes ->
         IF m.is_error THEN Throw("internalError", cache) ELSE Return(m.subtype, FALSE, cache)
    [] OTHER -> IF isCancelled THEN Return("cancelled", FALSE, cache) ELSE Continue(cache)

\* (mutant) a result of an error subtype never throws
OnResultLenient(m, isCancelled, cache) ==
  IF isCancelled THEN Return("cancelled", FALSE, cache)
  ELSE CASE m.subtype = "success" ->
              IF m.text = "login" THEN Throw("authRequired", cache)
              ELSE IF m.is_error THEN Throw("internalError", cache)
              ELSE Return("end_turn", TRUE, cache)
         [] m.subtype = "error_during_execution" -> Return("end_turn", FALSE, cache)
         [] m.subtype \in BudgetSubtypes -> Return("max_turn_requests", FALSE, cache)
         [] OTHER -> Continue(cache)

\* (mutant) the error flag of a success result is looked at before its text
OnResultErrorFirst(m, isCancelled, cache) ==
  IF isCancelled THEN Return("cancelled", FALSE, cache)
  ELSE CASE m.subtype = "success" ->
              IF m.is_error THEN Throw("internalError", cache)
              ELSE IF m.text = "login" THEN Throw("authRequired", cache)
              ELSE Return("end_turn", TRUE, cache)
         [] m.subtype = "error_during_execution" ->
              IF m.is_error THEN Throw("internalError", cache) ELSE Return("end_turn", FALSE, cache)
         [] m.subtype \in BudgetSubtypes ->
              IF m.is_error THEN Throw("internalError", cache)
              ELSE Return("max_turn_requests", FALSE, cache)
         [] OTHER -> Continue(cache)

\* case "result"
OnResult(m, isCancelled, cache) ==
  IF isCancelled THEN Return("cancelled", FALSE, cache)
  ELSE CASE m.subtype = "success" ->
              IF m.text = "login" THEN Throw("authRequired", cache)
              ELSE IF m.is_error THEN Throw("internalError", cache)
              ELSE Return("end_turn", TRUE, cache)
         [] m.subtype = "error_during_execution" ->
              IF m.is_error THEN Throw("internalError", cache) ELSE Return("end_turn", FALSE, cache)
         [] m.subtype \in BudgetSubtypes ->
              IF m.is_error THEN Throw("internalError", cache)
              ELSE Return("max_turn_requests", FALSE, cache)
         [] OTHER -> Continue(cache)

\* case "user" / "assistant"
OnUserOrAssistant(m, isCancelled, cache) ==
  IF isCancelled THEN Continue(cache)
  ELSE IF m.isString /\ m.text \in {"stdout", "stderr"} THEN Continue(cache)
  ELSE IF m.type = "user"
          /\ (m.isString \/ (Len(m.content) = 1 /\ m.content[1].type = "text"))
       THEN Continue(cache)
  ELSE IF m.type = "assistant" /\ m.model = "synthetic" /\ Len(m.content) = 1
          /\ m.content[1].type = "text" /\ m.content[1].text = "login"
       THEN Throw("authRequired", cache)
  ELSE LET content == IF m.type = "assistant"
                      THEN SelectSeq(m.content, LAMBDA c : c.type \notin {"text", "thinking"})
                      ELSE m.content
           r == toAcpNotifications(content, m.type, cache)
       IN Step("continue", "", "", FALSE, r.out, r.cache)

\* (mutant) a message of a type the switch does not know aborts the prompt
OnMessageStrict(m, isCancelled, cache) ==
  CASE m.type = "result" -> OnResult(m, isCancelled, cache)
    [] m.type = "stream_event" ->
         LET r == streamEventToAcpNotifications(m, cache)
         IN Step("continue", "", "", FALSE, r.out, r.cache)
    [] m.type \in {"user", "assistant"} -> OnUserOrAssistant(m, isCancelled, cache)
    [] m.type \in {"system", "tool_progress", "auth_status"} -> Continue(cache)
    [] OTHER -> Throw("internalError", cache)

\* switch (message.type)
OnMessage(m, isCancelled, cache) ==
  CASE m.type = "result" -> OnResult(m, isCancelled, cache)
    [] m.type = "stream_event" ->
         LET r == streamEventToAcpNotifications(m, cache)
         IN Step("continue", "", "", FALSE, r.out, r.cache)
    [] m.type \in {"user", "assistant"} -> OnUserOrAssistant(m, isCancelled, cache)
    [] OTHER -> Continue(cache)

\* one handler call: which method, from which backend event (its number in the
\* backend's stream) and which update of that event
Call(channel, seq, idx, u) ==
  [channel |-> channel, seq |-> seq, idx |-> idx,
   kind |-> u.kind, toolCallId |-> u.toolCallId, status |-> u.status, entries |-> u.entries]

RECURSIVE SumEmitted(_)
SumEmitted(n) == IF n = 0 THEN 0 ELSE query[n].emitted + SumEmitted(n - 1)
TotalEmitted == SumEmitted(Len(query))

\* another prompt() on object o has not finished
Outstanding(o) == \E q \in 1..Len(prompts) : prompts[q].obj = o /\ Running(q)

\* a ContentBlock of a prompt: its type, and whether it carries what
\* promptToClaude looks for (a resource its text, an image its data or an
\* http uri)
Block(type, usable) == [type |-> type, usable |-> usable]

\* the capability tag of a content block type
KindTag(type) ==
  CASE type = "text" -> "prompt/text"
    [] type = "image" -> "prompt/image"
    [] type = "audio" -> "prompt/audio"
    [] type = "resource_link" -> "prompt/resource_link"
    [] OTHER -> "prompt/resource"

\* promptToClaude, the switch over one chunk: what it pushes onto `content`
ContentOfBlock(b) ==
  CASE b.type \in {"text", "resource_link"} -> <<"text">>
    [] b.type = "resource" -> IF b.usable THEN <<"text">> ELSE << >>
    [] b.type = "image" -> IF b.usable THEN <<"image">> ELSE << >>
    [] OTHER -> << >>

\* and what it pushes onto `context`
ContextOfBlock(b) == IF b.type = "resource" /\ b.usable THEN <<"context">> ELSE << >>

RECURSIVE ContentOf(_)
ContentOf(blocks) ==
  IF blocks = << >> THEN << >> ELSE ContentOfBlock(Head(blocks)) \o ContentOf(Tail(blocks))

RECURSIVE ContextOf(_)
ContextOf(blocks) ==
  IF blocks = << >> THEN << >> ELSE ContextOfBlock(Head(blocks)) \o ContextOf(Tail(blocks))

\* promptToClaude(prompt, sessionId): the content of the user message, the
\* context entries after everything else
promptToClaude(blocks) == ContentOf(blocks) \o ContextOf(blocks)

\* (mutant) prompt() clears the cancelled flag before it starts
promptResetting(o, blocks) ==
  /\ Len(prompts) < MaxPrompts
  /\ prompts' = Append(prompts,
       [obj |-> o, pc |-> "next", pending |-> << >>, seq |-> 0, stopReason |-> "",
        error |-> "", consumed |-> 0, last |-> NoMessage, log |-> << >>,
        overlapped |-> Outstanding(o), cancelEarly |-> FALSE,
        pushed |-> promptToClaude(blocks)])
  /\ query' = [query EXCEPT ![o].input = PushablePush(@, promptToClaude(blocks))]
  /\ objs' = [objs EXCEPT ![o].cancelled = FALSE]
  /\ UNCHANGED <<stream, probe>>
  /\ lastOp' = On(o, blocks, Op("prompt", Registered(o), "ok", <<"push", "next">>))
  /\ UNCHANGED <<sessions, request>>

\* prompt(prompt) up to its first await: input.push(promptToClaude(...)), then
\* query.next()
prompt(o, blocks) ==
  /\ Len(prompts) < MaxPrompts
  /\ prompts' = Append(prompts,
       [obj |-> o, pc |-> "next", pending |-> << >>, seq |-> 0, stopReason |-> "",
        error |-> "", consumed |-> 0, last |-> NoMessage, log |-> << >>,
        overlapped |-> Outstanding(o), cancelEarly |-> FALSE,
        pushed |-> promptToClaude(blocks)])
  /\ query' = [query EXCEPT ![o].input = PushablePush(@, promptToClaude(blocks))]
  /\ UNCHANGED <<stream, probe>>
  /\ lastOp' = On(o, blocks, Op("prompt", Registered(o), "ok", <<"push", "next">>))
  /\ UNCHANGED <<sessions, objs, request>>

\* the backend messages about tools: a plan of two todos, a tool use under
\* the same id, the result of that id, and the results that end a prompt
ToolsEvents ==
  {AssistantMessage("model", <<TodoWrite("tool_use", "t1", <<Todo("a", "pending"),
                                                            Todo("b", "completed")>>)>>),
   StreamEvent("content_block_start", TodoWrite("tool_use", "t1", <<Todo("b", "in_progress")>>)),
   AssistantMessage("model", <<ToolUse("tool_use", "t1", "Bash", FALSE)>>),
   UserMessage(<<ToolResult("tool_result", "t1", FALSE)>>),
   ResultMessage("success", FALSE, ""), ResultMessage("success", TRUE, "")}

\* (mutant) the updates of a pass are handed over last one first
DequeueLast(pending) ==
  [e |-> pending[Len(pending)], rest |-> SubSeq(pending, 1, Len(pending) - 1)]

\* for (const notification of ...) await emitUpdate(...): the update handed to
\* the handler next, and the ones left for later
Dequeue(pending) == [e |-> Head(pending), rest |-> Tail(pending)]

Indexed(out) == [i \in 1..Len(out) |-> [idx |-> i, u |-> out[i]]]

\* query.next() resolves with message m, and the loop body runs up to its
\* next await
PromptOnMessage(p, m) ==
  LET o == prompts[p].obj
      r == OnMessage(m, objs[o].cancelled, objs[o].toolUseCache)
      n == query[o].emitted + 1
  IN /\ prompts[p].pc = "next"
     /\ ~query[o].done
     /\ TotalEmitted < MaxEvents
     /\ query' = [query EXCEPT ![o].emitted = n]
     /\ objs' = [objs EXCEPT ![o].toolUseCache = r.cache]
     /\ prompts' = [prompts EXCEPT ![p] =
          [@ EXCEPT !.consumed = @ + 1, !.seq = n, !.last = m, !.pending = Indexed(r.out),
                    !.stopReason = r.stopReason, !.error = r.error,
                    !.log = IF r.usage
                            THEN Append(@, Call("usageUpdate", n, 0, Update("usage", "", "")))
                            ELSE @,
                    !.pc = CASE r.end = "return" -> "returned"
                             [] r.end = "throw" -> "threw"
                             [] r.out # << >> -> "emit"
                             [] OTHER -> "next"]]
     /\ UNCHANGED <<sessions, request, lastOp, stream, probe>>

\* await emitUpdate(this.handler, notification), one notification of the pass
PromptEmit(p) ==
  LET o == prompts[p].obj
      e == Dequeue(prompts[p].pending).e
      rest == Dequeue(prompts[p].pending).rest
  IN /\ prompts[p].pc = "emit"
     /\ prompts' = [prompts EXCEPT ![p] =
          [@ EXCEPT !.pending = rest,
                    !.log = Append(@, Call(emitUpdate(e.u.kind), prompts[p].seq, e.idx, e.u)),
                    !.pc = IF rest = << >> THEN "next" ELSE "emit"]]
     /\ UNCHANGED <<sessions, objs, query, request, lastOp, stream, probe>>

\* query.next() resolves with done: the backend's stream has ended
PromptOnDone(p) ==
  LET o == prompts[p].obj IN
  /\ prompts[p].pc = "next"
  /\ query' = [query EXCEPT ![o].done = TRUE]
  /\ prompts' = [prompts EXCEPT ![p] =
       IF objs[o].cancelled
       THEN [@ EXCEPT !.pc = "returned", !.stopReason = "cancelled", !.last = StreamDone]
       ELSE [@ EXCEPT !.pc = "threw", !.error = "Session did not end in result",
                      !.last = StreamDone]]
  /\ UNCHANGED <<sessions, objs, request, lastOp, stream, probe>>

\* the backend messages the checked runs draw from
ResultEvents ==
  {ResultMessage("success", FALSE, ""), ResultMessage("success", TRUE, ""),
   ResultMessage("success", FALSE, "login"),
   ResultMessage("error_during_execution", FALSE, ""),
   ResultMessage("error_max_turns", FALSE, ""), ResultMessage("error_max_turns", TRUE, ""),
   ResultMessage("mystery", FALSE, "")}
ToolEvents ==
  {AssistantMessage("", <<ToolUse("tool_use", "t1", "Bash", FALSE),
                          ToolUse("tool_use", "t2", "TodoWrite", TRUE)>>),
   StreamEvent("content_block_start", ToolUse("tool_use", "t2", "Bash", FALSE)),
   UserMessage(<<ToolResult("tool_result", "t1", FALSE), ToolResult("tool_result", "t2", FALSE)>>),
   UserMessage(<<ToolResult("tool_result", "t1", TRUE)>>)}
TranslateEvents ==
  ToolEvents \cup
  {ResultMessage("success", FALSE, ""),
   StreamEvent("content_block_delta", TextChunk("text_delta", ""))}
\* a tool use, and the results that abort the prompt
AbortEvents ==
  {AssistantMessage("model", <<ToolUse("tool_use", "t1", "Bash", FALSE)>>),
   ResultMessage("success", TRUE, ""),
   ResultMessage("success", FALSE, "login"),
   ResultMessage("error_max_turns", TRUE, "")}
\* the messages a prompt may end at: the results with and without the error
\* flag and the login hint, and the synthetic assistant message with the hint
TerminalEvents ==
  ResultEvents \cup
  {ResultMessage("success", TRUE, "login"),
   ResultMessage("error_during_execution", TRUE, ""),
   ResultMessage("error_max_budget_usd", FALSE, ""),
   AssistantMessage("synthetic", <<TextChunk("text", "login")>>)}
\* messages of kinds the translator does not know: a message type, a system
\* subtype, a result subtype, a stream-event type and a chunk type; and a tool
\* use it does know
UnknownEvents ==
  {OtherMessage("mystery"), SystemMessage("mystery"), ResultMessage("mystery", FALSE, ""),
   StreamEvent("mystery", TextChunk("text_delta", "")),
   StreamEvent("content_block_delta", TextChunk("mystery", "")),
   AssistantMessage("model", <<TextChunk("mystery", "")>>),
   AssistantMessage("model", <<ToolUse("tool_use", "t1", "Bash", FALSE)>>)}
PromptEvents ==
  ResultEvents \cup
  {SystemMessage("init"),
   StreamEvent("content_block_delta", TextChunk("text_delta", "")),
   AssistantMessage("synthetic", <<TextChunk("text", "login")>>),
   OtherMessage("mystery")}

\* the prompt the runs of the loop are started with: one text block
TextPrompt == <<Block("text", TRUE)>>
\* the prompts the checked runs draw from: every block type alone, usable or
\* not, and text together with a resource and an audio block
BlockPrompts ==
  {<<Block(t, u)>> : t \in {"text", "image", "audio", "resource_link", "resource"}, u \in BOOLEAN}
    \cup {<<Block("resource", TRUE), Block("text", TRUE), Block("audio", TRUE)>>}

SessionPrompt == \E o \in 1..Len(objs) : prompt(o, TextPrompt)
\* prompt() by a caller that waits for its previous prompt on that session
SessionPromptIdle == \E o \in 1..Len(objs) : ~Outstanding(o) /\ prompt(o, TextPrompt)
\* the backend, consuming its input: it asks the Pushable for the next prompt
BackendReads ==
  \E o \in 1..Len(objs) :
    /\ ~query[o].input.waiting
    /\ Len(query[o].input.taken) < MaxPrompts
    /\ query' = [query EXCEPT ![o].input = PushableNext(@)]
    /\ UNCHANGED <<sessions, objs, prompts, request, lastOp, stream, probe>>

\* prompt() with any of the prompts
SessionPromptBlocks == \E o \in 1..Len(objs), blocks \in BlockPrompts : prompt(o, blocks)
PromptNext == \E p \in 1..Len(prompts), m \in PromptEvents : PromptOnMessage(p, m)
TranslateNext == \E p \in 1..Len(prompts), m \in TranslateEvents : PromptOnMessage(p, m)
AbortNext == \E p \in 1..Len(prompts), m \in AbortEvents : PromptOnMessage(p, m)
ToolsNext == \E p \in 1..Len(prompts), m \in ToolsEvents : PromptOnMessage(p, m)
UnknownNext == \E p \in 1..Len(prompts), m \in UnknownEvents : PromptOnMessage(p, m)
TerminalNext == \E p \in 1..Len(prompts), m \in TerminalEvents : PromptOnMessage(p, m)
PromptDeliver == \E p \in 1..Len(prompts) : PromptEmit(p)
PromptStreamEnd == \E p \in 1..Len(prompts) : PromptOnDone(p)

\* ------------------------------------------------- permission arbitration
\* acpToolNames.edit, acpToolNames.write
EDIT_TOOL_NAMES == {"mcp__acp__Edit", "mcp__acp__Write"}
\* the tools the backend asks permission for
PermTools == {"ExitPlanMode", "Bash", "mcp__acp__Edit"}

\* the optionIds of the two requestPermission calls
ExitPlanOptions == {"acceptEdits", "default", "plan"}
GenericOptions == {"allow_always", "allow", "reject"}
\* the answers the checked runs draw from: cancelled, or any option id of
\* either flow
Responses ==
  {Response("cancelled", "")} \cup
  {Response("selected", id) : id \in ExitPlanOptions \cup GenericOptions}

\* throw new Error("Tool use aborted")
Aborted == Decision("throw", FALSE, "none")

\* (mutant) the short-circuit forgets acceptEdits
ModeAllowsBypassOnly(mode, toolName) == mode = "bypassPermissions"

\* the mode short-circuit of canUseTool
ModeAllows(mode, toolName) ==
  mode = "bypassPermissions" \/ (mode = "acceptEdits" /\ toolName \in EDIT_TOOL_NAMES)

\* suggestions ?? [rule]
UpdatedPermissions(suggestions, rule) == IF suggestions THEN "suggestions" ELSE rule

\* (mutant) the mode short-circuit is tested before the ExitPlanMode flow
canUseToolModeFirst(sid, toolName, suggestions) ==
  /\ request.pc # "asked"
  /\ request' = (
       IF sid \notin DOMAIN sessions
       THEN Request(sid, 0, toolName, suggestions, "done", "none", Decision("deny", TRUE, "none"))
       ELSE LET o == sessions[sid] IN
            IF ModeAllows(objs[o].permissionMode, toolName)
            THEN Request(sid, o, toolName, suggestions, "done", "none",
                         Decision("allow", FALSE, UpdatedPermissions(suggestions, "addRules")))
            ELSE IF toolName = "ExitPlanMode"
            THEN Request(sid, o, toolName, suggestions, "asked", "exit", NoDecision)
            ELSE Request(sid, o, toolName, suggestions, "asked", "generic", NoDecision))
  /\ UNCHANGED <<sessions, objs, query, prompts, lastOp, stream, probe>>

\* canUseTool(sessionId)(toolName, toolInput, {signal, suggestions, ...}) up to
\* its first await or its return
canUseTool(sid, toolName, suggestions) ==
  /\ request.pc # "asked"
  /\ request' = (
       IF sid \notin DOMAIN sessions
       THEN Request(sid, 0, toolName, suggestions, "done", "none", Decision("deny", TRUE, "none"))
       ELSE LET o == sessions[sid] IN
            IF toolName = "ExitPlanMode"
            THEN Request(sid, o, toolName, suggestions, "asked", "exit", NoDecision)
            ELSE IF ModeAllows(objs[o].permissionMode, toolName)
            THEN Request(sid, o, toolName, suggestions, "done", "none",
                         Decision("allow", FALSE, UpdatedPermissions(suggestions, "addRules")))
            ELSE Request(sid, o, toolName, suggestions, "asked", "generic", NoDecision))
  /\ UNCHANGED <<sessions, objs, query, prompts, lastOp, stream, probe>>

\* (mutant) whatever option the client selects leaves plan mode
ExitPlanDecisionAny(resp, aborted, suggestions) ==
  IF aborted \/ resp.outcome = "cancelled" THEN Aborted
  ELSE Decision("allow", FALSE, UpdatedPermissions(suggestions, "setMode"))

\* the ExitPlanMode flow after handler.requestPermission resolved
ExitPlanDecision(resp, aborted, suggestions) ==
  IF aborted \/ resp.outcome = "cancelled" THEN Aborted
  ELSE IF resp.outcome = "selected" /\ resp.optionId \in {"default", "acceptEdits"}
       THEN Decision("allow", FALSE, UpdatedPermissions(suggestions, "setMode"))
       ELSE Decision("deny", TRUE, "none")

\* (mutant) the generic flow allows on any option id but "reject"
GenericDecisionUnoffered(resp, aborted, suggestions) ==
  IF aborted \/ resp.outcome = "cancelled" THEN Aborted
  ELSE IF resp.outcome = "selected" /\ resp.optionId # "reject"
       THEN Decision("allow", FALSE, "none")
       ELSE Decision("deny", TRUE, "none")

\* the generic flow after handler.requestPermission resolved
GenericDecision(resp, aborted, suggestions) ==
  IF aborted \/ resp.outcome = "cancelled" THEN Aborted
  ELSE IF resp.outcome = "selected" /\ resp.optionId \in {"allow", "allow_always"}
       THEN IF resp.optionId = "allow_always"
            THEN Decision("allow", FALSE, UpdatedPermissions(suggestions, "addRules"))
            ELSE Decision("allow", FALSE, "none")
       ELSE Decision("deny", TRUE, "none")

\* handler.requestPermission resolves with resp; `aborted` is signal.aborted
\* at that moment
PermissionResponse(resp, aborted) ==
  LET q == request
      d == IF q.flow = "exit" THEN ExitPlanDecision(resp, aborted, q.suggestions)
           ELSE GenericDecision(resp, aborted, q.suggestions)
      accepted == q.flow = "exit" /\ d.behavior = "allow"
  IN /\ q.pc = "asked"
     /\ request' =
          [q EXCEPT !.pc = "done", !.response = resp, !.aborted = aborted, !.decision = d,
                    !.modeUpdates = IF accepted THEN Append(@, resp.optionId) ELSE @]
     /\ objs' = IF accepted THEN [objs EXCEPT ![q.obj].permissionMode = resp.optionId]
                ELSE IF q.flow = "generic" /\ d.behavior = "allow" /\ resp.optionId = "allow_always"
                THEN [objs EXCEPT ![q.obj].alwaysAllowed = @ \cup {q.toolName}]
                ELSE objs
     /\ UNCHANGED <<sessions, query, prompts, lastOp, stream, probe>>

\* handler.requestPermission throws or its promise rejects: nothing catches it
\* in canUseTool
OnRequestFailure == Aborted

PermissionFailure ==
  /\ request.pc = "asked"
  /\ request' = [request EXCEPT !.pc = "done", !.failed = TRUE, !.decision = OnRequestFailure]
  /\ UNCHANGED <<sessions, objs, query, prompts, lastOp, stream, probe>>

BackendAsks == \E sid \in DOMAIN sessions \cup UsedIds, t \in PermTools, sg \in BOOLEAN : canUseTool(sid, t, sg)
ClientAnswers == \E resp \in Responses, aborted \in BOOLEAN : PermissionResponse(resp, aborted)
ClientFails == PermissionFailure

Next ==
  \/ newSession
  \/ resumeSession
  \/ setSessionModel
  \/ setSessionMode
  \/ cancelSession
  \/ closeSession
  \/ SessionPromptIdle

\* the provider's operations, by session id, and prompt() up to its first await
Spec == Init /\ [][Next]_vars

\* the provider right after its first newSession()
InitSession ==
  /\ sessions = Put(<< >>, "s1", 1)
  /\ objs = <<NewSessionObject("s1")>>
  /\ query = <<NewQuery>>
  /\ prompts = << >>
  /\ request = NoRequest
  /\ lastOp = Op("newSession", FALSE, "ok", <<"query">>)
  /\ stream = NoStream
  /\ probe = NoProbe

NextPrompt ==
  \/ SessionCancel
  \/ SessionPrompt
  \/ PromptNext
  \/ PromptDeliver
  \/ PromptStreamEnd

NextPermission ==
  \/ SessionSetMode
  \/ closeSession
  \/ BackendAsks
  \/ ClientAnswers
  \/ ClientFails

\* one session: the backend's canUseTool calls and the client's answers
SpecPermission == InitSession /\ [][NextPermission]_vars

\* one session: its prompt loop against the backend's event stream, and cancel()
SpecPrompt == InitSession /\ [][NextPrompt]_vars

NextResult ==
  \/ SessionCancel
  \/ SessionPrompt
  \/ TerminalNext
  \/ PromptStreamEnd

\* one session: its prompts against the messages a prompt may end at
SpecResult == InitSession /\ [][NextResult]_vars

NextTools ==
  \/ SessionCancel
  \/ setSessionMode
  \/ SessionPromptIdle
  \/ ToolsNext
  \/ PromptDeliver
  \/ PromptStreamEnd

\* one session: tool uses, plans and tool results, with cancel() and setMode()
SpecTools == InitSession /\ [][NextTools]_vars

\* the backend messages a prompt of a cancelled session may see: a tool use, a
\* tool result, and results with and without the error flag
CancelledEvents ==
  {AssistantMessage("model", <<ToolUse("tool_use", "t1", "Bash", FALSE)>>),
   UserMessage(<<ToolResult("tool_result", "t1", FALSE)>>),
   ResultMessage("success", FALSE, ""),
   ResultMessage("error_during_execution", TRUE, "")}
CancelledNext == \E p \in 1..Len(prompts), m \in CancelledEvents : PromptOnMessage(p, m)

NextCancelled ==
  \/ SessionCancel
  \/ SessionClose
  \/ setSessionMode
  \/ SessionPromptIdle
  \/ CancelledNext
  \/ PromptDeliver
  \/ PromptStreamEnd

\* one session: cancel() and close(), and the prompts made before and after
SpecCancelled == InitSession /\ [][NextCancelled]_vars

NextModels ==
  \/ SessionSetModel
  \/ setSessionModel
  \/ SessionGetAvailableModels
  \/ setSessionMode
  \/ SessionCancel
  \/ SessionPromptIdle
  \/ CancelledNext

\* one session: the model it runs, set by setModel and by getAvailableModels
SpecModels == InitSession /\ [][NextModels]_vars

NextUnknown ==
  \/ SessionCancel
  \/ SessionPromptIdle
  \/ UnknownNext
  \/ PromptDeliver
  \/ PromptStreamEnd

\* one session: its prompts against messages of kinds the translator does not
\* know
SpecUnknown == InitSession /\ [][NextUnknown]_vars

NextTranslate ==
  \/ SessionCancel
  \/ SessionPrompt
  \/ TranslateNext
  \/ PromptDeliver
  \/ PromptStreamEnd

\* one session: the translation of tool invocations and tool results
SpecTranslate == InitSession /\ [][NextTranslate]_vars

NextSession ==
  \/ setSessionModel
  \/ setSessionMode
  \/ cancelSession
  \/ closeSession
  \/ SessionSetModel
  \/ SessionSetMode
  \/ SessionCancel
  \/ SessionClose
  \/ SessionPrompt

\* one session: the control calls on it, by id and on the Session object the
\* caller kept, before and after it is closed
SpecSession == InitSession /\ [][NextSession]_vars

NextAbort ==
  \/ setSessionMode
  \/ SessionCancel
  \/ SessionPrompt
  \/ AbortNext
  \/ PromptDeliver
  \/ PromptStreamEnd

\* one session: prompts that end in an error, and what they leave behind
SpecAbort == InitSession /\ [][NextAbort]_vars

\* the provider after two newSession() calls
InitPair ==
  /\ sessions = Put(Put(<< >>, "s1", 1), "s2", 2)
  /\ objs = <<NewSessionObject("s1"), NewSessionObject("s2")>>
  /\ query = <<NewQuery, NewQuery>>
  /\ prompts = << >>
  /\ request = NoRequest
  /\ lastOp = Op("newSession", FALSE, "ok", <<"query">>)
  /\ stream = NoStream
  /\ probe = NoProbe

\* what the backends of the two sessions send and ask, and what the client
\* answers, in the runs with two sessions
PairEvents == {AssistantMessage("model", <<ToolUse("tool_use", "t1", "Bash", FALSE)>>)}
PairResponses == {Response("selected", "default")}
PairNext == \E p \in 1..Len(prompts), m \in PairEvents : PromptOnMessage(p, m)
PairAsks == \E sid \in DOMAIN sessions : canUseTool(sid, "ExitPlanMode", FALSE)
PairAnswers == \E resp \in PairResponses : PermissionResponse(resp, FALSE)

NextPair ==
  \/ setSessionMode
  \/ cancelSession
  \/ closeSession
  \/ SessionPromptIdle
  \/ PairNext
  \/ PromptDeliver
  \/ PairAsks
  \/ PairAnswers

\* two sessions side by side: prompts, control calls and permission decisions
\* of both, interleaved
SpecPair == InitPair /\ [][NextPair]_vars

NextPushable ==
  \/ SessionPromptBlocks
  \/ BackendReads

\* one session: prompts pushed onto its input, and the backend reading them
SpecPushable == InitSession /\ [][NextPushable]_vars

\* the provider idle, and ndJsonStream reading one of the inbound streams
InitStream ==
  /\ sessions = << >>
  /\ objs = << >>
  /\ query = << >>
  /\ prompts = << >>
  /\ request = NoRequest
  /\ lastOp = Op("none", FALSE, "none", << >>)
  /\ stream \in { NewStream(bytes) : bytes \in InboundStreams }
  /\ probe = NoProbe

NextStream ==
  \/ StreamRead
  \/ StreamEnd

SpecStream == InitStream /\ [][NextStream]_vars

\* the provider idle, and parseClaudeUsageOutput called with one of the texts
InitUsage ==
  /\ sessions = << >>
  /\ objs = << >>
  /\ query = << >>
  /\ prompts = << >>
  /\ request = NoRequest
  /\ lastOp = Op("none", FALSE, "none", << >>)
  /\ stream = NoStream
  /\ probe \in { NewProbe(text) : text \in UsageTexts }

NextUsage == ParseUsage

SpecUsage == InitUsage /\ [][NextUsage]_vars

\* --------------------------------------------------- toolInfoFromToolUse
\* ToolKind
ToolKinds ==
  {"read", "edit", "delete", "move", "search", "execute", "think", "fetch",
   "switch_mode", "other"}

\* the tool names toolInfoFromToolUse has a case for (acpToolNames included)
TableNames ==
  {"Task", "NotebookRead", "NotebookEdit", "Bash", "mcp__acp__Bash", "BashOutput",
   "mcp__acp__BashOutput", "KillShell", "mcp__acp__KillShell", "mcp__acp__Read", "Read",
   "LS", "mcp__acp__Edit", "Edit", "mcp__acp__Write", "Write", "Glob", "Grep", "WebFetch",
   "WebSearch", "TodoWrite", "ExitPlanMode", "Other"}

\* tool names handed to it: those of the table, two it has no case for, and
\* the empty name
ToolNames == TableNames \cup {"Mystery", "mcp__other__run", ""}

\* the properties of a tool input the cases read; the others are absent here
InputFields == {"description", "prompt", "command", "file_path", "path", "pattern", "plan"}

Absent == "absent"

\* toolUse.input: missing (given = FALSE), or an object some of whose
\* properties hold the text "v"
NoInput == [given |-> FALSE, at |-> [f \in InputFields |-> Absent]]
ToolInputs ==
  {NoInput} \cup {[given |-> TRUE, at |-> at] : at \in [InputFields -> {Absent, "v"}]}

\* input?.f is truthy
Has(input, f) == input.given /\ input.at[f] # Absent

\* what a call of toolInfoFromToolUse ends with: a ToolInfo, or the TypeError
\* of reading a property of undefined
ToolInfo(title, kind, content, locations) ==
  [threw |-> FALSE, title |-> title, kind |-> kind, content |-> content,
   locations |-> locations]
TypeError ==
  [threw |-> TRUE, title |-> << >>, kind |-> "none", content |-> << >>, locations |-> << >>]

TextContent(text) == <<[type |-> "content", text |-> text]>>
DiffContent(path, newText) == <<[type |-> "diff", text |-> <<path, newText>>]>>

\* cond ? [...] : []
When(cond, items) == IF cond THEN items ELSE << >>

\* a property in a template literal: its text, or "undefined"
Shown(input, f) == IF input.at[f] # Absent THEN input.at[f] ELSE "undefined"

\* JSON.stringify(input, null, 2): the properties the object holds, and
\* undefined (rendered "undefined" by the template) for a missing input
JSONstringify(input) ==
  IF input.given
  THEN <<"{">> \o
       When(Has(input, "description"), <<"description", "v">>) \o
       When(Has(input, "prompt"), <<"prompt", "v">>) \o
       When(Has(input, "command"), <<"command", "v">>) \o
       When(Has(input, "file_path"), <<"file_path", "v">>) \o
       When(Has(input, "path"), <<"path", "v">>) \o
       When(Has(input, "pattern"), <<"pattern", "v">>) \o
       When(Has(input, "plan"), <<"plan", "v">>) \o <<"}">>
  ELSE <<"undefined">>

\* the text content of the case "Other"; "fence" is the three backticks and
\* "tick" one backtick
JSONContent(input) == TextContent(<<"fence", "json", "nl">> \o JSONstringify(input) \o <<"fence">>)

\* title: name || "Unknown Tool"
NameOrUnknown(name) == IF name # "" THEN <<name>> ELSE <<"Unknown Tool">>

\* the cases that read input.<property> with no guard
ReadInfo(input) ==
  IF ~input.given THEN TypeError
  ELSE ToolInfo(<<"Read ", IF Has(input, "file_path") THEN "v" ELSE "File">>, "read", << >>,
                When(Has(input, "file_path"), <<"v">>))
PlainReadInfo(input) ==
  IF ~input.given THEN TypeError
  ELSE ToolInfo(<<"Read File">>, "read", << >>, When(Has(input, "file_path"), <<"v">>))
GlobInfo(input) ==
  IF ~input.given THEN TypeError
  ELSE ToolInfo(<<"Find">> \o When(Has(input, "path"), <<" ", "tick", "v", "tick">>)
                  \o When(Has(input, "pattern"), <<" ", "tick", "v", "tick">>),
                "search", << >>, When(Has(input, "path"), <<"v">>))
GrepInfo(input) ==
  IF ~input.given THEN TypeError
  ELSE ToolInfo(<<"grep">> \o When(Has(input, "pattern"), <<" ", "quote", "v", "quote">>)
                  \o When(Has(input, "path"), <<" v">>),
                "search", << >>, << >>)
WebSearchInfo(input) ==
  IF ~input.given THEN TypeError
  ELSE ToolInfo(<<"quote", "undefined", "quote">>, "fetch", << >>, << >>)

\* toolInfoFromToolUse: the default arm renders nothing
toolInfoFromToolUse(name, input) ==
  CASE name = "Task" ->
         ToolInfo(IF Has(input, "description") THEN <<"v">> ELSE <<"Task">>, "think",
                  When(Has(input, "prompt"), TextContent(<<"v">>)), << >>)
    [] name = "NotebookRead" -> ToolInfo(<<"Read Notebook">>, "read", << >>, << >>)
    [] name = "NotebookEdit" -> ToolInfo(<<"Edit Notebook">>, "edit", << >>, << >>)
    [] name \in {"Bash", "mcp__acp__Bash"} ->
         ToolInfo(IF Has(input, "command") THEN <<"tick", "v", "tick">> ELSE <<"Terminal">>,
                  "execute", When(Has(input, "description"), TextContent(<<"v">>)), << >>)
    [] name \in {"BashOutput", "mcp__acp__BashOutput"} ->
         ToolInfo(<<"Tail Logs">>, "execute", << >>, << >>)
    [] name \in {"KillShell", "mcp__acp__KillShell"} ->
         ToolInfo(<<"Kill Process">>, "execute", << >>, << >>)
    [] name = "mcp__acp__Read" -> ReadInfo(input)
    [] name = "Read" -> PlainReadInfo(input)
    [] name = "LS" ->
         ToolInfo(<<"List the ", IF Has(input, "path") THEN "tick v tick" ELSE "current",
                    " directory's contents">>, "search", << >>, << >>)
    [] name \in {"mcp__acp__Edit", "Edit"} ->
         ToolInfo(IF Has(input, "file_path") THEN <<"Edit ", "tick", "v", "tick">> ELSE <<"Edit">>,
                  "edit", When(Has(input, "file_path"), DiffContent("v", "")),
                  When(Has(input, "file_path"), <<"v">>))
    [] name \in {"mcp__acp__Write", "Write"} ->
         ToolInfo(IF Has(input, "file_path") THEN <<"Write ", "v">> ELSE <<"Write">>,
                  "edit", When(Has(input, "file_path"), DiffContent("v", "undefined")),
                  When(Has(input, "file_path"), <<"v">>))
    [] name = "Glob" -> GlobInfo(input)
    [] name = "Grep" -> GrepInfo(input)
    [] name = "WebFetch" ->
         ToolInfo(<<"Fetch">>, "fetch", When(Has(input, "prompt"), TextContent(<<"v">>)), << >>)
    [] name = "WebSearch" -> WebSearchInfo(input)
    [] name = "TodoWrite" -> ToolInfo(<<"Update TODOs">>, "think", << >>, << >>)
    [] name = "ExitPlanMode" ->
         ToolInfo(<<"Ready to code?">>, "switch_mode",
                  When(Has(input, "plan"), TextContent(<<"v">>)), << >>)
    [] name = "Other" -> ToolInfo(NameOrUnknown(name), "other", JSONContent(input), << >>)
    [] OTHER -> ToolInfo(NameOrUnknown(name), "other", << >>, << >>)

\* a call toolInfoFromToolUse({name, input}) not yet made, and the call made
NewToolCall(name, input) == [pc |-> "called", name |-> name, input |-> input, info |-> TypeError]
ToolInfoCall ==
  /\ probe.pc = "called"
  /\ probe' = [probe EXCEPT !.pc = "returned",
                            !.info = toolInfoFromToolUse(probe.name, probe.input)]
  /\ UNCHANGED <<sessions, objs, query, prompts, request, lastOp, stream>>

InitToolInfo ==
  /\ sessions = << >>
  /\ objs = << >>
  /\ query = << >>
  /\ prompts = << >>
  /\ request = NoRequest
  /\ lastOp = Op("none", FALSE, "none", << >>)
  /\ stream = NoStream
  /\ probe \in { NewToolCall(name, input) : name \in ToolNames, input \in ToolInputs }

NextToolInfo == ToolInfoCall

\* toolInfoFromToolUse applied to every tool name and input
SpecToolInfo == InitToolInfo /\ [][NextToolInfo]_vars

NextContent ==
  \/ SessionPromptBlocks
  \/ SessionCancel

\* one session: prompt() with content blocks of every kind
SpecContent == InitSession /\ [][NextContent]_vars

\* ================================================================== claims
\* the client-facing operations the capability set names a tag for
GatedOps ==
  {"newSession", "resumeSession", "setSessionModel", "setSessionMode", "cancelSession", "prompt"}

\* C1: a client-facing operation whose capability tag is not in the provider's
\* declared capability set is rejected and has made no backend call.
C1_CapabilityGate ==
  (lastOp.op \in GatedOps /\ CapabilityTag(lastOp.op) \notin DeclaredCapabilities)
    => (lastOp.outcome = "rejected" /\ lastOp.calls = << >>)

\* C2: a prompt() made while another prompt() on the same session is outstanding
\* is rejected: it is never driven against the backend and consumes no backend
\* event.
C2_SingleInFlight ==
  \A p \in 1..Len(prompts) :
    prompts[p].overlapped => (prompts[p].pc = "rejected" /\ prompts[p].consumed = 0)

\* handler call a comes from an earlier backend event than b, or from the same
\* event and an earlier update of it
Before(a, b) == a.seq < b.seq \/ (a.seq = b.seq /\ a.idx < b.idx)

\* C3: within one prompt, the handler is called in the order of the backend
\* events the calls derive from (and, for one event, in the order of its
\* updates); while the loop waits for the next event nothing of an earlier
\* event is still undelivered.
C3_Ordered ==
  \A p \in 1..Len(prompts) :
    LET log == prompts[p].log IN
    /\ \A i, j \in 1..Len(log) : i < j => Before(log[i], log[j])
    /\ prompts[p].pc # "emit" => prompts[p].pending = << >>
    /\ \A i \in 1..Len(prompts[p].pending) :
         Len(log) > 0 => Before(log[Len(log)], [seq |-> prompts[p].seq, idx |-> prompts[p].pending[i].idx])

\* C3 witness: a prompt has delivered three updates, from two backend events
C3_Witness ==
  \E p \in 1..Len(prompts) :
    Len(prompts[p].log) >= 3 /\ prompts[p].log[1].seq < prompts[p].log[3].seq

\* prompt p consumes a backend message in this step
Consumes(p) == prompts'[p].consumed = prompts[p].consumed + 1

\* the chunks of a message that are tool results
ResultChunks(m) == {m.content[i] : i \in {k \in 1..Len(m.content) : m.content[k].type \in ToolResultTypes}}

\* the option ids offered with kind reject_once
RejectOnce == {"reject", "plan"}

\* C4: when the client's answer is 'cancelled', or the interruption signal has
\* fired by the time the answer arrives, the decision canUseTool hands to the
\* backend is deny with interrupt = true, in either flow.
C4_CancelledDenies ==
  (request.pc = "done" /\ request.flow # "none" /\ ~request.failed
     /\ (request.aborted \/ request.response.outcome = "cancelled"))
    => (request.decision.behavior = "deny" /\ request.decision.interrupt)

\* C5: when awaiting handler.requestPermission fails, the decision handed to the
\* backend is deny with interrupt = true: neither allow nor a failure of
\* canUseTool itself.
C5_FailClosed ==
  (request.pc = "done" /\ request.failed)
    => (request.decision.behavior = "deny" /\ request.decision.interrupt)

\* C6: when the client selects the reject-once option (and the signal has not
\* fired), the decision handed to the backend is deny with interrupt not set.
C6_RejectOnceNoInterrupt ==
  (request.pc = "done" /\ request.flow # "none" /\ ~request.failed /\ ~request.aborted
     /\ request.response.outcome = "selected" /\ request.response.optionId \in RejectOnce
     /\ (request.flow = "generic" => request.response.optionId = "reject")
     /\ (request.flow = "exit" => request.response.optionId = "plan"))
    => (request.decision.behavior = "deny" /\ ~request.decision.interrupt)

\* C7: when a message is translated, every tool_call_update it yields carries the
\* id of one of its tool-result chunks, whose invocation is cached, and the status
\* failed / completed by that chunk's error flag; a tool result whose id has no
\* cached invocation yields no update and the prompt goes on; a single tool
\* result matching a cached invocation other than TodoWrite yields exactly its
\* update, unless the session is cancelled.
C7_ToolCorrelation ==
  [][\A p \in 1..Len(prompts) :
       Consumes(p) =>
         LET m == prompts'[p].last
             o == prompts[p].obj
             before == objs[o].toolUseCache
             after == objs'[o].toolUseCache
             out == prompts'[p].pending
         IN /\ \A i \in 1..Len(out) :
                 out[i].u.kind = "tool_call_update" =>
                   \E c \in ResultChunks(m) :
                     /\ out[i].u.toolCallId = c.id
                     /\ out[i].u.status = (IF c.is_error THEN "failed" ELSE "completed")
                     /\ after[c.id] # "none"
            /\ \A c \in ResultChunks(m) :
                 after[c.id] = "none" =>
                   /\ \A i \in 1..Len(out) : out[i].u.toolCallId # c.id
                   /\ prompts'[p].pc \in {"next", "emit"}
            /\ (m.type = "user" /\ Len(m.content) = 1 /\ ResultChunks(m) # {}
                  /\ before[m.content[1].id] \notin {"none", "TodoWrite"} /\ ~objs[o].cancelled)
                 => (Len(out) = 1 /\ out[1].u.kind = "tool_call_update")]_vars

\* the stop reasons of a PromptResponse
StopReasons == {"end_turn", "max_tokens", "max_turn_requests", "refusal", "cancelled"}

\* prompt p has observed a terminal event: a result message or the end of the
\* backend's stream
SawTerminal(p) == prompts[p].last.type \in {"result", "done"}

\* C8 (as stated): every prompt() call that has ended has returned a
\* PromptResponse with a stop reason of the set, after its terminal event.
C8_OneTerminalResponse ==
  \A p \in 1..Len(prompts) :
    ~Running(p) =>
      /\ prompts[p].pc = "returned"
      /\ prompts[p].stopReason \in StopReasons
      /\ SawTerminal(p)

\* C8 (amended): a prompt() call ends at most once, and either by returning one
\* PromptResponse, with a stop reason of the set and after a result message or
\* the end of the stream was observed, or by throwing an error without any
\* response; while it runs it has neither, and once ended it never changes.
C8_ResponseOrError ==
  /\ [](\A p \in 1..Len(prompts) :
          /\ prompts[p].pc \in {"next", "emit", "returned", "threw"}
          /\ prompts[p].pc = "returned" =>
               (prompts[p].stopReason \in StopReasons /\ prompts[p].error = "" /\ SawTerminal(p))
          /\ prompts[p].pc = "threw" => (prompts[p].stopReason = "" /\ prompts[p].error # "")
          /\ Running(p) => (prompts[p].stopReason = "" /\ prompts[p].error = ""))
  /\ [][\A p \in 1..Len(prompts) : ~Running(p) => prompts'[p] = prompts[p]]_vars

\* C8 witness: one prompt has returned on a budget result, another has thrown
C8_Witness ==
  \E p, q \in 1..Len(prompts) :
    /\ prompts[p].pc = "returned" /\ prompts[p].stopReason = "max_turn_requests"
    /\ prompts[q].pc = "threw"

\* C9: a prompt cancelled before any backend event arrived delivers nothing to
\* the handler, and when it ends it has returned stopReason 'cancelled'.
C9_EarlyCancelSilent ==
  \A p \in 1..Len(prompts) :
    prompts[p].cancelEarly =>
      /\ prompts[p].log = << >>
      /\ prompts[p].pending = << >>
      /\ ~Running(p) => (prompts[p].pc = "returned" /\ prompts[p].stopReason = "cancelled")

\* prompt p observes the end of the backend's stream in this step
ObservesEnd(p) == prompts'[p].last = StreamDone /\ prompts[p].last # StreamDone

\* C10: when the loop observes a result message or the end of the stream while
\* the session's cancelled flag is set, prompt() returns stopReason 'cancelled',
\* whatever the result's subtype and error flag: it does not throw, does not go
\* on, and calls the handler with nothing (no usage update).
C10_CancelledWins ==
  [][\A p \in 1..Len(prompts) :
       ((Consumes(p) /\ prompts'[p].last.type = "result") \/ ObservesEnd(p))
         /\ objs[prompts[p].obj].cancelled
       => /\ prompts'[p].pc = "returned"
          /\ prompts'[p].stopReason = "cancelled"
          /\ prompts'[p].error = ""
          /\ prompts'[p].log = prompts[p].log
          /\ prompts'[p].pending = << >>]_vars

\* C10 witness: a cancelled prompt returned 'cancelled' on a result message whose
\* error flag is set
C10_Witness ==
  \E p \in 1..Len(prompts) :
    /\ prompts[p].pc = "returned" /\ prompts[p].stopReason = "cancelled"
    /\ prompts[p].last.type = "result" /\ prompts[p].last.is_error
    /\ objs[prompts[p].obj].cancelled

\* C7 witness: a failed tool result was reported for a cached invocation
C7_Witness ==
  \E p \in 1..Len(prompts) :
    /\ prompts[p].last.type = "user"
    /\ \E i \in 1..Len(prompts[p].log) :
         /\ prompts[p].log[i].kind = "tool_call_update"
         /\ prompts[p].log[i].status = "failed"
         /\ objs[prompts[p].obj].toolUseCache[prompts[p].log[i].toolCallId] = "Bash"

\* the operations on an existing session: by id through the provider, and on
\* the Session object
SessionOps ==
  {"setSessionModel", "setSessionMode", "cancelSession", "prompt", "setModel", "setMode", "cancel"}

\* C11: an operation on a session that has been closed (by closeSession or by
\* close()), by id or on the retained Session object, fails with
\* session-not-found and makes no backend call.
C11_ClosedIsTerminal ==
  (lastOp.op \in SessionOps /\ lastOp.closed)
    => (lastOp.outcome = "not_found" /\ lastOp.calls = << >>)

\* the provider's operations that take the id of an existing session
ByIdOps == {"setSessionModel", "setSessionMode", "cancelSession", "closeSession"}

\* C12: setSessionModel, setSessionMode, cancelSession and closeSession with an
\* id that is not in the session table end in the not-found error, make no
\* backend call, and leave the table, every session object, every backend
\* handle and every prompt as they were.
C12_UnknownIdFails ==
  /\ []((lastOp.op \in ByIdOps /\ ~lastOp.known)
          => (lastOp.outcome = "not_found" /\ lastOp.calls = << >>))
  /\ [][(lastOp'.op \in ByIdOps /\ ~lastOp'.known)
          => UNCHANGED <<sessions, objs, query, prompts, request>>]_vars

\* C12 witness: closeSession was called with an id the (non-empty) table does
\* not hold, and failed
C12_Witness ==
  /\ lastOp.op = "closeSession" /\ ~lastOp.known /\ lastOp.outcome = "not_found"
  /\ DOMAIN sessions # {}

CloseOps == {"close", "closeSession"}

\* C13: a close (close() or closeSession) of a session that was closed before
\* makes no backend call, ends as a no-op or in the not-found error, and leaves
\* every session object and backend handle as it was; it removes nothing from
\* the table that the first close had removed.
C13_CloseOnce ==
  /\ []((lastOp.op \in CloseOps /\ lastOp.closed)
          => (lastOp.calls = << >> /\ lastOp.outcome \in {"ok", "not_found"}))
  /\ [][(lastOp'.op \in CloseOps /\ lastOp'.closed)
          => (objs' = objs /\ query' = query /\ prompts' = prompts
              /\ (lastOp'.outcome = "not_found" => sessions' = sessions))]_vars

\* C13 witness: both second closes happened: close() on the closed object
\* returned at once, and closeSession with the closed id failed as not found
C13_Witness ==
  /\ lastOp.op = "closeSession" /\ lastOp.closed /\ lastOp.outcome = "not_found"
  /\ \E o \in 1..Len(objs) : objs[o].closed /\ ~Registered(o)

\* the content block types the capability set declares
DeclaredKinds == {t \in {"text", "image", "audio", "resource_link", "resource"} :
                   KindTag(t) \in CLAUDE_CAPABILITY.prompt}

\* C14: a prompt() with a content block whose kind the capability set does not
\* declare is rejected, and nothing is pushed onto the backend's input.
C14_ContentKinds ==
  (lastOp.op = "prompt" /\ \E i \in 1..Len(lastOp.arg) : lastOp.arg[i].type \notin DeclaredKinds)
    => (lastOp.outcome = "rejected" /\ lastOp.calls = << >>)

\* the model ids and mode ids the backend advertises
AdvertisedModels == {supportedModels[i] : i \in 1..Len(supportedModels)}
AdvertisedModes == ESTIMATE_MODES

\* C20: setModel / setMode with an id the backend does not advertise is
\* rejected without a backend call, and the recorded mode and the backend's
\* model and mode are always advertised ones.
C20_ValidatedIds ==
  /\ (lastOp.op \in {"setModel", "setSessionModel"} /\ lastOp.outcome # "not_found"
        /\ lastOp.arg \notin AdvertisedModels)
       => (lastOp.outcome = "rejected" /\ lastOp.calls = << >>)
  /\ (lastOp.op \in {"setMode", "setSessionMode"} /\ lastOp.outcome # "not_found"
        /\ lastOp.arg \notin AdvertisedModes)
       => (lastOp.outcome = "rejected" /\ lastOp.calls = << >>)
  /\ \A o \in 1..Len(objs) :
       /\ objs[o].permissionMode \in AdvertisedModes
       /\ query[o].mode \in AdvertisedModes
       /\ query[o].model \in AdvertisedModels

\* C15: when the backend's stream ends without a result while the session is
\* not cancelled, prompt() ends by throwing the internal error (-32603): it has
\* ended, and if it threw, the error is RequestError.internalError.
C15_StreamEndInternalError ==
  \A p \in 1..Len(prompts) :
    prompts[p].last = StreamDone =>
      \/ prompts[p].pc = "returned" /\ prompts[p].stopReason = "cancelled"
      \/ prompts[p].pc = "threw" /\ prompts[p].error = "internalError"

\* C16: the step in which a prompt() aborts with an error changes neither the
\* session table nor any session object (cancelled flag, permission mode,
\* tool-use cache), and the session of an aborted prompt is still in the table.
C16_AbortKeepsSession ==
  /\ [][\A p \in 1..Len(prompts) :
          (Running(p) /\ prompts'[p].pc = "threw") => (sessions' = sessions /\ objs' = objs)]_vars
  /\ [](\A p \in 1..Len(prompts) : prompts[p].pc = "threw" => Registered(prompts[p].obj))

\* C16 witness: a prompt aborted on a result error with a tool use cached and
\* the mode changed, and a later prompt was accepted on the same session
C16_Witness ==
  \E p, q \in 1..Len(prompts) :
    /\ p < q /\ prompts[q].obj = prompts[p].obj /\ ~prompts[q].overlapped
    /\ prompts[p].pc = "threw" /\ prompts[p].error \in {"internalError", "authRequired"}
    /\ objs[prompts[p].obj].toolUseCache["t1"] = "Bash"
    /\ objs[prompts[p].obj].permissionMode = "acceptEdits"

\* the backend makes a canUseTool call in this step
Asks == request.pc # "asked" /\ request' # request

\* C17: a canUseTool call for a tool other than ExitPlanMode on a known session
\* returns allow at once, without a request to the client, when the session's
\* mode is bypassPermissions or is acceptEdits and the tool is an edit tool;
\* in default mode (and in acceptEdits for a tool that is no edit tool) it asks
\* the client; and a call that asks gets its one answer and is done.
C17_ModeShortCircuit ==
  /\ [][(Asks /\ request'.obj # 0 /\ request'.toolName # "ExitPlanMode") =>
          LET mode == objs[request'.obj].permissionMode
              tool == request'.toolName
          IN /\ (mode = "bypassPermissions" \/ (mode = "acceptEdits" /\ tool \in EDIT_TOOL_NAMES))
                  => /\ request'.pc = "done" /\ request'.flow = "none"
                     /\ request'.decision.behavior = "allow"
             /\ (mode = "default" \/ (mode = "acceptEdits" /\ tool \notin EDIT_TOOL_NAMES))
                  => /\ request'.pc = "asked" /\ request'.flow = "generic"
                     /\ request'.decision = NoDecision]_vars
  /\ [][(request.pc = "asked" /\ request' # request) => request'.pc = "done"]_vars

\* C17 witness: in acceptEdits mode an edit tool was allowed without asking
C17_Witness ==
  /\ request.pc = "done" /\ request.flow = "none" /\ request.obj # 0
  /\ request.toolName = "mcp__acp__Edit" /\ request.decision.behavior = "allow"
  /\ objs[request.obj].permissionMode = "acceptEdits"

\* C18: once the client has selected always-allow for a tool in a session, a
\* canUseTool call for that tool in that session is never left asking the
\* client: it is done and allowed, and the decision that answered always-allow
\* carries permission updates (the backend's suggestions, or else the rule for
\* the tool).
C18_AlwaysAllowSticks ==
  (request.obj # 0 /\ request.toolName \in objs[request.obj].alwaysAllowed)
    => /\ request.pc = "done"
       /\ request.decision.behavior = "allow"
       /\ request.response.optionId = "allow_always"
            => request.decision.updatedPermissions \in {"addRules", "suggestions"}

\* C19: in the ExitPlanMode flow, when the client selects acceptEdits or default
\* (and the signal has not fired) the session's permission mode becomes the
\* selected id, exactly one mode update with that id is delivered and the
\* decision is allow; when it selects plan the decision is deny, no session
\* object changes and no mode update is delivered.
C19_ExitPlanMode ==
  [][(request.pc = "asked" /\ request.flow = "exit" /\ request'.pc = "done"
        /\ ~request'.failed /\ ~request'.aborted /\ request'.response.outcome = "selected") =>
       LET id == request'.response.optionId
           o == request.obj
       IN /\ id \in {"acceptEdits", "default"} =>
               /\ objs'[o].permissionMode = id
               /\ request'.modeUpdates = <<id>>
               /\ request'.decision.behavior = "allow"
          /\ id = "plan" =>
               /\ request'.decision.behavior = "deny"
               /\ objs' = objs
               /\ request'.modeUpdates = << >>]_vars

\* C19 witness: acceptEdits was selected for ExitPlanMode on a session in plan
\* mode
C19_Witness ==
  /\ request.pc = "done" /\ request.flow = "exit" /\ request.obj # 0
  /\ request.response = Response("selected", "acceptEdits")
  /\ request.modeUpdates = <<"acceptEdits">>
  /\ objs[request.obj].permissionMode = "acceptEdits"
  /\ lastOp.op = "setMode" /\ lastOp.arg = "plan"

\* C21: every session object that was created and not closed is the one the
\* session table holds under its id (so no two unclosed objects share an id, and
\* none is out of the table's reach).
C21_TableOwnsSessions ==
  \A o \in 1..Len(objs) : ~objs[o].closed => Registered(o)

\* this step is one of the prompt loop of a prompt on session object a
LoopStepOn(a) ==
  \E p \in 1..Len(prompts) : prompts[p].obj = a /\ prompts'[p] # prompts[p] /\ Running(p)
                               /\ prompts'[p].cancelEarly = prompts[p].cancelEarly

\* this step delivers the decision of a permission request of session object a
DecisionOn(a) == request.pc = "asked" /\ request'.pc = "done" /\ request.obj = a

\* C22: a step that translates or delivers an event of a prompt on session A, or
\* decides a permission request of A, or changes A's object (setMode, cancel,
\* close) leaves every other session object as it was: cancelled flag,
\* permission mode and tool-use cache.
C22_SessionsIsolated ==
  [][\A a, b \in 1..Len(objs) :
       (a # b /\ (LoopStepOn(a) \/ DecisionOn(a) \/ objs'[a] # objs[a])) => objs'[b] = objs[b]]_vars

\* C22 witness: session 1 has a tool use cached and its mode changed, session 2
\* was cancelled, and neither shows the other's changes
C22_Witness ==
  /\ Len(objs) >= 2
  /\ objs[1].toolUseCache["t1"] = "Bash" /\ objs[1].permissionMode = "acceptEdits"
  /\ ~objs[1].cancelled
  /\ objs[2].cancelled /\ objs[2].toolUseCache["t1"] = "none"
  /\ objs[2].permissionMode = "default"

\* what was pushed onto the input of session object o, in push order
RECURSIVE PushedTo(_, _)
PushedTo(o, n) ==
  IF n = 0 THEN << >>
  ELSE IF prompts[n].obj = o THEN Append(PushedTo(o, n - 1), prompts[n].pushed)
       ELSE PushedTo(o, n - 1)

Consumed == SubSeq(stream.input, 1, Len(stream.input) - Len(stream.rest))

\* the complete records of a byte stream: the text before each newline,
\* trimmed, where anything is left of it
CompleteRecords(bytes) ==
  LET ls == split(decode("", bytes).text)
      trimmed == [i \in 1..(Len(ls) - 1) |-> trim(ls[i])]
      NonEmpty(t) == t # << >>
  IN SelectSeq(trimmed, NonEmpty)

\* C24: however the inbound bytes are cut into chunks, in the middle of a
\* record or of a character, the messages enqueued after any number of reads
\* are those of the same bytes read as one chunk, and the record held back is
\* the same.
C24_ChunkingInvariant ==
  LET whole == readChunk(NewStream(Consumed), Consumed)
  IN /\ stream.out = whole.out
     /\ stream.content = whole.content
     /\ stream.pending = whole.pending

\* C24 witness: a closed stream read in chunks that ended inside a record and
\* inside a character, which delivered a string and a number
C24_Witness ==
  /\ stream.closed
  /\ stream.cuts = {"record", "character"}
  /\ Len(stream.out) >= 2
  /\ \E i, j \in 1..Len(stream.out) :
       /\ i < j
       /\ stream.out[i] = [type |-> "string", value |-> <<"e-acute">>]
       /\ stream.out[j] = [type |-> "number", value |-> <<"1", "1">>]

\* C25: the messages enqueued are those of the complete records read so far
\* that parse, in stream order, the records that do not parse are logged and
\* nothing else happens to them, and the stream closes only at the end of the
\* inbound stream.
C25_MalformedSkipped ==
  LET records == CompleteRecords(Consumed)
      good == SelectSeq(records, Parses)
      Malformed(t) == ~Parses(t)
  IN /\ stream.out = [i \in 1..Len(good) |-> JSONparse(good[i])]
     /\ stream.logged = SelectSeq(records, Malformed)
     /\ stream.closed => stream.rest = << >>

\* C25 witness: a malformed record between two well-formed ones; both were
\* delivered and the stream ran to its end
C25_Witness ==
  /\ stream.closed
  /\ stream.input = <<"1", "nl", "quote", "nl", "1", "1", "nl">>
  /\ stream.logged = << <<"quote">> >>
  /\ stream.out = << [type |-> "number", value |-> <<"1">>],
                     [type |-> "number", value |-> <<"1", "1">>] >>

\* the usage line of a text that is the session label and one line under it
UsageLine == probe.text[2]
UsageDigits == SelectSeq(UsageLine, LAMBDA t : t \in Digits)
UsageWord == Lower(UsageLine[Len(UsageLine)])

\* C26: for a usage line "N% used" or "N% left" with N in 0..999 under the
\* session label, the call returns and the session's percentRemaining is an
\* integer in 0..100: 100 - N, or 0 where that is negative, for "used", and
\* N, or 100 where N is greater, for "left".
C26_PercentRemaining ==
  (/\ probe.pc # "called" /\ probe.text \in PercentTexts
   /\ Len(UsageDigits) <= 3)
  => /\ probe.pc = "returned"
     /\ LET n == parseInt(UsageDigits)
            pct == probe.snapshot.quotas[1].percentRemaining
        IN /\ pct \in 0..100
           /\ UsageWord = "used" => pct = (IF n >= 100 THEN 0 ELSE 100 - n)
           /\ UsageWord = "left" => pct = (IF n >= 100 THEN 100 ELSE n)

\* C26 witness: "250% used" was reported as 0 remaining
C26_Witness ==
  /\ probe.pc = "returned"
  /\ probe.text = << <<"Current session">>, <<"bar", "2", "5", "0", "%", " ", "used">> >>
  /\ probe.snapshot.quotas = <<Quota("session", 0)>>

\* C27: a call with a text that holds "API Usage Billing" and none of the
\* usage-error markers throws subscription_required and returns no snapshot.
C27_ApiBillingRejected ==
  (/\ probe.pc # "called"
   /\ includes(LowerText(probe.text), <<"api usage billing">>)
   /\ extractUsageError(normalizeTerminalText(probe.text)) = "")
  => /\ probe.pc = "thrown" /\ probe.code = "subscription_required"
     /\ probe.snapshot = NoSnapshot

\* prompt p consumes, in this step, a result message of one of the subtypes
ConsumesResult(p, subtypes) ==
  /\ Consumes(p)
  /\ prompts'[p].last.type = "result"
  /\ prompts'[p].last.subtype \in subtypes

\* the session of prompt p is not cancelled when the step is taken
Uncancelled(p) == ~objs[prompts[p].obj].cancelled

\* the handler call that delivers the usage of the message prompt p consumes
UsageCall(p) == Call("usageUpdate", prompts'[p].seq, 0, Update("usage", "", ""))

ErrorSubtypes == {"error_during_execution"} \cup BudgetSubtypes

\* what a prompt does with a result of an error subtype: it throws the
\* internal error exactly when the error flag is set, and else returns
\* 'max_turn_requests' for the budget, turn and retry limits and 'end_turn'
\* for an error during execution; the handler is not called
ErrorResultOutcome(p) ==
  LET m == prompts'[p].last
  IN /\ prompts'[p].pc = (IF m.is_error THEN "threw" ELSE "returned")
     /\ prompts'[p].error = (IF m.is_error THEN "internalError" ELSE "")
     /\ prompts'[p].stopReason =
          (IF m.is_error THEN ""
           ELSE IF m.subtype \in BudgetSubtypes THEN "max_turn_requests" ELSE "end_turn")
     /\ prompts'[p].log = prompts[p].log

\* C29 (as stated): a prompt that consumes a result of an error subtype throws
\* the internal error if and only if the result's error flag is set, and else
\* returns the stop reason of the subtype.
C29_ErrorResult ==
  [][\A p \in 1..Len(prompts) :
       ConsumesResult(p, ErrorSubtypes) => ErrorResultOutcome(p)]_vars

\* C29 (amended): the same, for a prompt of a session that is not cancelled.
C29_ErrorResultUncancelled ==
  [][\A p \in 1..Len(prompts) :
       (ConsumesResult(p, ErrorSubtypes) /\ Uncancelled(p)) => ErrorResultOutcome(p)]_vars

\* C29 witness: one prompt threw on a turn-limit result with the error flag,
\* another returned on one without
C29_Witness ==
  \E p, q \in 1..Len(prompts) :
    /\ prompts[p].pc = "threw" /\ prompts[p].error = "internalError"
    /\ prompts[p].last = ResultMessage("error_max_turns", TRUE, "")
    /\ prompts[q].pc = "returned" /\ prompts[q].stopReason = "max_turn_requests"
    /\ prompts[q].last = ResultMessage("error_max_turns", FALSE, "")

\* a success result with the login hint, or a synthetic assistant message of
\* one text block with it
LoginHint(m) ==
  \/ m.type = "result" /\ m.subtype = "success" /\ m.text = "login"
  \/ /\ m.type = "assistant" /\ m.model = "synthetic" /\ Len(m.content) = 1
     /\ m.content[1].type = "text" /\ m.content[1].text = "login"

\* the prompt throws the authentication-required error; the handler is not
\* called
AuthRequiredOutcome(p) ==
  /\ prompts'[p].pc = "threw"
  /\ prompts'[p].error = "authRequired"
  /\ prompts'[p].stopReason = ""
  /\ prompts'[p].log = prompts[p].log
  /\ prompts'[p].pending = << >>

\* C30 (as stated): a prompt that consumes a message with the login hint
\* throws the authentication-required error, whatever the error flag, and
\* delivers no usageUpdate.
C30_LoginHint ==
  [][\A p \in 1..Len(prompts) :
       (Consumes(p) /\ LoginHint(prompts'[p].last)) => AuthRequiredOutcome(p)]_vars

\* C30 (amended): the same, for a prompt of a session that is not cancelled.
C30_LoginHintUncancelled ==
  [][\A p \in 1..Len(prompts) :
       (Consumes(p) /\ LoginHint(prompts'[p].last) /\ Uncancelled(p))
         => AuthRequiredOutcome(p)]_vars

\* C30 witness: one prompt threw on a success result with the hint and the
\* error flag, another on the synthetic assistant message
C30_Witness ==
  \E p, q \in 1..Len(prompts) :
    /\ prompts[p].pc = "threw" /\ prompts[p].error = "authRequired"
    /\ prompts[p].last = ResultMessage("success", TRUE, "login")
    /\ prompts[q].pc = "threw" /\ prompts[q].error = "authRequired"
    /\ prompts[q].last.type = "assistant"

\* the kinds the switches of promptInternal, toAcpNotifications and
\* streamEventToAcpNotifications have a case for
KnownMessageTypes ==
  {"system", "result", "stream_event", "user", "assistant", "tool_progress", "auth_status"}
KnownSystemSubtypes == {"init", "compact_boundary", "hook_response", "status"}
KnownResultSubtypes == {"success"} \cup ErrorSubtypes
KnownStreamEventTypes ==
  {"content_block_start", "content_block_delta", "message_start", "message_delta",
   "message_stop", "content_block_stop"}
KnownChunkTypes ==
  {"text", "text_delta", "image", "thinking", "thinking_delta", "document", "search_result",
   "redacted_thinking", "input_json_delta", "citations_delta", "signature_delta",
   "container_upload"} \cup ToolUseTypes \cup ToolResultTypes

\* a message of a kind the translator has no case for
Unrecognised(m) ==
  \/ m.type \notin KnownMessageTypes
  \/ m.type = "system" /\ m.subtype \notin KnownSystemSubtypes
  \/ m.type = "result" /\ m.subtype \notin KnownResultSubtypes
  \/ m.type = "stream_event" /\ m.subtype \notin KnownStreamEventTypes
  \/ /\ m.type \in {"stream_event", "assistant", "user"}
     /\ m.content # << >>
     /\ \A i \in 1..Len(m.content) : m.content[i].type \notin KnownChunkTypes

\* the prompt goes on to wait for the next message: it has delivered and holds
\* nothing new, and the session object is as it was
DroppedBy(p) ==
  /\ prompts'[p].pc = "next"
  /\ prompts'[p].pending = << >>
  /\ prompts'[p].log = prompts[p].log
  /\ prompts'[p].stopReason = "" /\ prompts'[p].error = ""
  /\ objs' = objs

\* C31 (as stated): a prompt that consumes a message of a kind the translator
\* does not recognise delivers nothing, goes on to wait for the next message,
\* and the session's flag, mode and tool-use cache are unchanged.
C31_UnknownDropped ==
  [][\A p \in 1..Len(prompts) :
       (Consumes(p) /\ Unrecognised(prompts'[p].last)) => DroppedBy(p)]_vars

\* C31 (amended): the same, except for a result of an unrecognised subtype
\* consumed while the session is cancelled.
C31_UnknownDroppedUncancelled ==
  [][\A p \in 1..Len(prompts) :
       (/\ Consumes(p) /\ Unrecognised(prompts'[p].last)
        /\ prompts'[p].last.type = "result" => Uncancelled(p))
         => DroppedBy(p)]_vars

\* C31 witness: after a tool use, a prompt consumed a result of an
\* unrecognised subtype and waits for the next message, the cache as it was
C31_Witness ==
  \E p \in 1..Len(prompts) :
    /\ prompts[p].consumed = 2 /\ prompts[p].pc = "next"
    /\ prompts[p].last = ResultMessage("mystery", FALSE, "")
    /\ Len(prompts[p].log) = 1
    /\ objs[prompts[p].obj].toolUseCache["t1"] = "Bash"
    /\ ~objs[prompts[p].obj].cancelled

\* prompt p hands, in this step, the content of the message it consumes to
\* toAcpNotifications: a stream event, or a user or assistant message of a
\* session that is not cancelled
Translates(p) ==
  /\ Consumes(p)
  /\ \/ prompts'[p].last.type = "stream_event"
     \/ prompts'[p].last.type \in {"user", "assistant"} /\ Uncancelled(p)

\* the only chunk of the message prompt p consumes
OnlyChunk(p) == prompts'[p].last.content[1]

\* the updates prompt p is left to deliver after the step
Held(p) == [i \in 1..Len(prompts'[p].pending) |-> prompts'[p].pending[i].u]

\* the plan of a list of todos: an entry per todo, in order, with its content
\* and status and the priority 'medium'
IsPlanOf(entries, list) ==
  /\ Len(entries) = Len(list)
  /\ \A i \in 1..Len(list) :
       /\ entries[i].content = list[i].content
       /\ entries[i].status = list[i].status
       /\ entries[i].priority = "medium"

\* C32: when the translator is handed a tool use of TodoWrite whose input
\* holds a list of todos, the one update it yields is a plan with an entry per
\* todo, in order, with the todo's content and status and priority 'medium',
\* and no tool_call; when it is later handed the result of that tool use it
\* yields nothing; and what the handler gets for a plan is a planUpdate with
\* those entries.
C32_PlanInsteadOfToolCall ==
  /\ [][\A p \in 1..Len(prompts) :
          /\ (/\ Translates(p) /\ Len(prompts'[p].last.content) = 1
              /\ OnlyChunk(p).type \in ToolUseTypes
              /\ OnlyChunk(p).name = "TodoWrite" /\ OnlyChunk(p).todos)
             => /\ Len(Held(p)) = 1
                /\ Held(p)[1].kind = "plan"
                /\ IsPlanOf(Held(p)[1].entries, OnlyChunk(p).list)
          /\ (/\ Translates(p) /\ Len(prompts'[p].last.content) = 1
              /\ OnlyChunk(p).type \in ToolResultTypes
              /\ objs[prompts[p].obj].toolUseCache[OnlyChunk(p).id] = "TodoWrite")
             => (Held(p) = << >> /\ prompts'[p].log = prompts[p].log)]_vars
  /\ [](\A p \in 1..Len(prompts) : \A i \in 1..Len(prompts[p].log) :
          prompts[p].log[i].kind = "plan" <=> prompts[p].log[i].channel = "planUpdate")

\* C32 witness: the handler got one planUpdate with the two todos, and the
\* prompt has since consumed the tool result and delivered nothing for it
C32_Witness ==
  \E p \in 1..Len(prompts) :
    /\ prompts[p].consumed = 2 /\ prompts[p].pc = "next"
    /\ prompts[p].last = UserMessage(<<ToolResult("tool_result", "t1", FALSE)>>)
    /\ Len(prompts[p].log) = 1
    /\ prompts[p].log[1].channel = "planUpdate"
    /\ prompts[p].log[1].entries =
         << [content |-> "a", status |-> "pending", priority |-> "medium"],
            [content |-> "b", status |-> "completed", priority |-> "medium"] >>

\* the tool uses of a message, and whether one of them has id t
UsesTool(m, t) ==
  \E i \in 1..Len(m.content) : m.content[i].type \in ToolUseTypes /\ m.content[i].id = t

\* C33: an entry of a session's tool-use cache is never removed, and it
\* changes only in a step in which a prompt of the session translates a
\* message with a tool use of that id; after such a step the id is in the
\* cache.
C33_CacheOnlyGrows ==
  [][\A o \in 1..Len(objs) : \A t \in ToolIds :
       /\ objs[o].toolUseCache[t] # "none" => objs'[o].toolUseCache[t] # "none"
       /\ objs'[o].toolUseCache[t] # objs[o].toolUseCache[t]
            => \E p \in 1..Len(prompts) :
                 prompts[p].obj = o /\ Translates(p) /\ UsesTool(prompts'[p].last, t)
       /\ (\E p \in 1..Len(prompts) :
             prompts[p].obj = o /\ Translates(p) /\ UsesTool(prompts'[p].last, t))
            => objs'[o].toolUseCache[t] # "none"]_vars

\* C33 witness: the entry of a tool use is still there after its result, a
\* change of mode, a cancel and the end of the prompt
C33_Witness ==
  \E p \in 1..Len(prompts) :
    /\ objs[prompts[p].obj].toolUseCache["t1"] = "Bash"
    /\ objs[prompts[p].obj].cancelled
    /\ objs[prompts[p].obj].permissionMode = "acceptEdits"
    /\ prompts[p].pc = "returned" /\ prompts[p].consumed = 2
    /\ Len(prompts[p].log) = 1

\* C34: every call of toolInfoFromToolUse returns, without throwing, a title
\* and a kind of ToolKind, and for a tool name that is not in its table it
\* returns kind 'other' with the raw input rendered as JSON text content.
C34_ToolInfoTotal ==
  probe.pc = "returned" =>
    /\ ~probe.info.threw
    /\ probe.info.title # << >>
    /\ probe.info.kind \in ToolKinds
    /\ probe.name \notin TableNames =>
         /\ probe.info.kind = "other"
         /\ Len(probe.info.content) = 1
         /\ probe.info.content[1].type = "content"
         /\ probe.info.content[1].text = JSONContent(probe.input)[1].text

\* the option ids of a flow that allow
AllowingOptions(flow) ==
  IF flow = "exit" THEN {"default", "acceptEdits"} \cap ExitPlanOptions
  ELSE {"allow", "allow_always"} \cap GenericOptions

\* C35: a canUseTool call that returns allow found its session, and either it
\* returned at once because the mode short-circuit applied to a tool other
\* than ExitPlanMode, or the client answered 'selected' with an allowing
\* option id offered in that request; a call for a missing session is denied
\* with interrupt without a request to the client; and an answer whose option
\* id is a rejecting one or was not offered is never followed by allow.
C35_AllowOnlyIfOffered ==
  /\ [](request.decision.behavior = "allow" =>
          /\ request.obj # 0
          /\ \/ request.flow = "none" /\ request.toolName # "ExitPlanMode"
             \/ /\ request.flow \in {"exit", "generic"}
                /\ request.response.outcome = "selected"
                /\ request.response.optionId \in AllowingOptions(request.flow))
  /\ [][(Asks /\ request'.decision.behavior = "allow") =>
          /\ request'.sid \in DOMAIN sessions
          /\ ModeAllows(objs[sessions[request'.sid]].permissionMode, request'.toolName)]_vars
  /\ [][(Asks /\ request'.sid \notin DOMAIN sessions) =>
          /\ request'.pc = "done" /\ request'.flow = "none"
          /\ request'.decision = Decision("deny", TRUE, "none")]_vars
  /\ []((request.pc = "done" /\ request.response.outcome = "selected"
          /\ request.response.optionId \notin AllowingOptions(request.flow))
         => request.decision.behavior # "allow")

\* C35 witness: the client selected, in the generic flow, an option id that
\* only the ExitPlanMode request offers, and the call was denied
C35_Witness ==
  /\ request.pc = "done" /\ request.flow = "generic"
  /\ request.response = Response("selected", "acceptEdits")
  /\ ~request.aborted
  /\ request.decision = Decision("deny", TRUE, "none")

\* C37: a canUseTool call for ExitPlanMode on a known session asks the client
\* whatever the session's mode is, and no call for ExitPlanMode returns allow
\* without the client's answer.
C37_ExitPlanAlwaysPrompts ==
  /\ [][(Asks /\ request'.toolName = "ExitPlanMode") =>
          /\ request'.decision.behavior # "allow"
          /\ request'.sid \in DOMAIN sessions
               => /\ request'.pc = "asked" /\ request'.flow = "exit"
                  /\ request'.decision = NoDecision]_vars
  /\ []((request.toolName = "ExitPlanMode" /\ request.decision.behavior = "allow")
         => /\ request.flow = "exit"
            /\ request.response.outcome = "selected")

\* C37 witness: the client is asked about ExitPlanMode in a session whose mode
\* is bypassPermissions
C37_Witness ==
  /\ request.pc = "asked" /\ request.flow = "exit" /\ request.toolName = "ExitPlanMode"
  /\ objs[request.obj].permissionMode = "bypassPermissions"

\* prompt number p does not exist yet, and session object o is cancelled
CancelledBefore(o, p) == Len(objs) >= o /\ objs[o].cancelled /\ Len(prompts) < p

\* prompt number p, on session object o, has ended otherwise than by
\* returning 'cancelled'
EndsUncancelled(o, p) ==
  /\ Len(prompts) >= p /\ prompts[p].obj = o
  /\ prompts[p].pc \notin {"next", "emit"}
  /\ ~(prompts[p].pc = "returned" /\ prompts[p].stopReason = "cancelled" /\ prompts[p].error = "")

\* C36: the cancelled flag of a session, once set by cancel() or close(), is
\* never reset; so a prompt() made after that, when it ends at a result or at
\* the end of the backend's stream, returns stopReason 'cancelled'; and a user
\* or assistant message consumed while the flag is set leaves nothing to
\* deliver.
C36_CancelledForGood ==
  /\ [][\A o \in 1..Len(objs) : objs[o].cancelled => objs'[o].cancelled]_vars
  /\ \A o \in 1..MaxObjs : \A p \in 1..MaxPrompts :
       [](CancelledBefore(o, p) => [](~EndsUncancelled(o, p)))
  /\ [][\A p \in 1..Len(prompts) :
          (Consumes(p) /\ prompts'[p].last.type \in {"user", "assistant"}
             /\ objs[prompts[p].obj].cancelled)
          => /\ prompts'[p].pending = << >>
             /\ prompts'[p].log = prompts[p].log
             /\ prompts'[p].pc = "next"]_vars

\* C36 witness: after close() and a prompt that returned 'cancelled', a second
\* prompt was made; it returned 'cancelled' on a result with the error flag
C36_Witness ==
  /\ Len(prompts) = 2
  /\ objs[prompts[2].obj].cancelled /\ objs[prompts[2].obj].closed
  /\ prompts[1].pc = "returned" /\ prompts[1].stopReason = "cancelled"
  /\ prompts[2].pc = "returned" /\ prompts[2].stopReason = "cancelled"
  /\ prompts[1].consumed = 1 /\ prompts[2].consumed = 1 /\ prompts[2].log = << >>
  /\ prompts[2].last = ResultMessage("error_during_execution", TRUE, "")

\* the canUseTool call on session object o ends, in this step, with an accepted
\* ExitPlanMode request that hands a session-scoped setMode update to the backend
HandsSetMode(o) ==
  /\ request.pc = "asked" /\ request'.pc = "done"
  /\ request'.obj = o /\ request'.flow = "exit"
  /\ request'.decision.behavior = "allow"
  /\ request'.decision.updatedPermissions = "setMode"

\* C38: the permissionMode a session records changes only to the mode that
\* the same step applies to the backend: in setMode only when the backend's
\* setPermissionMode succeeds, and on an accepted ExitPlanMode request only
\* together with a session-scoped setMode update returned to the backend.
C38_ModeInSync ==
  [][\A o \in 1..Len(objs) :
       objs'[o].permissionMode # objs[o].permissionMode
         => \/ /\ lastOp' # lastOp
               /\ lastOp'.outcome = "ok"
               /\ query'[o].mode = objs'[o].permissionMode
            \/ HandsSetMode(o)]_vars

\* a getAvailableModels call whose backend calls resolve is made in this step
ListsModels == lastOp' # lastOp /\ lastOp'.op = "getAvailableModels" /\ lastOp'.outcome = "ok"

\* C39: a getAvailableModels call (whose backend calls resolve) leaves the
\* backend of its session on the first model of the supported list, whatever
\* model was set before, and changes nothing else: no flag, mode, cache, session
\* table entry, prompt or other backend.
C39_ModelsNotReadOnly ==
  [][ListsModels =>
       /\ \E o \in 1..Len(objs) : query' = [query EXCEPT ![o].model = supportedModels[1]]
       /\ UNCHANGED <<sessions, objs, prompts, request>>]_vars

\* C39 witness: getAvailableModels was called on a cancelled session in mode
\* acceptEdits with a tool use in its cache, and its backend runs the first
\* supported model
C39_Witness ==
  /\ lastOp.op = "getAvailableModels" /\ lastOp.outcome = "ok"
  /\ query[1].model = supportedModels[1]
  /\ objs[1].cancelled /\ objs[1].permissionMode = "acceptEdits"
  /\ objs[1].toolUseCache["t1"] = "Bash"
  /\ Len(prompts) = 1

============================================================================
